---- MODULE Spec2Model ----
(***************************************************************************)
(* FAIReSheets: model of the batched mutation engine (helpers/api_retry),  *)
(* of the formatting loops of the grid builders, and of the assembly of    *)
(* the sampleMetadata grid.                                                *)
(***************************************************************************)
EXTENDS Integers, Sequences, FiniteSets, TLC

(***************************************************************************)
(* Bounds of the model.                                                    *)
(***************************************************************************)
MaxRequests == 4
MaxChunkSize == 3
MaxAttempts == 5
MaxBaseSleep == 2
MaxSleepCap == 8
MaxBatchRequests == 9
MaxAssays == 2
MaxUserFields == 2
MaxFields == 3
MaxNoaaFields == 2
MaxRuns == 2

(***************************************************************************)
(* Strings are sequences of one-character strings, so that the substring   *)
(* tests of the code ("429" in str(e), str.contains) are computed.         *)
(***************************************************************************)
Min(a, b) == IF a <= b THEN a ELSE b

Contains(s, pat) ==
    \E k \in 0..(Len(s) - Len(pat)) :
        \A j \in 1..Len(pat) : s[k + j] = pat[j]

DigitChar(d) == <<"0", "1", "2", "3", "4", "5", "6", "7", "8", "9">>[d + 1]

RECURSIVE Digits(_)
Digits(n) == IF n < 10 THEN <<DigitChar(n)>>
             ELSE Digits(n \div 10) \o <<DigitChar(n % 10)>>

(***************************************************************************)
(* Exceptions.  An exception is a record of its class, the HTTP status of  *)
(* the response (0 when there is none), its message and chunk_index, the   *)
(* index of a chunk when the exception carries one (-1 when it does not).  *)
(* The remote client knows nothing of chunks: what it raises carries none. *)
(***************************************************************************)
NoChunk == 0 - 1

NoException == [type |-> "None", code |-> 0, msg |-> <<>>, chunk_index |-> NoChunk]

\* HTTP 429, quota exceeded
QuotaExceeded ==
    [type |-> "APIError", code |-> 429, msg |-> <<"Q", "u", "o", "t", "a">>,
     chunk_index |-> NoChunk]

\* HTTP 403, permission denied
PermissionDenied ==
    [type |-> "APIError", code |-> 403, msg |-> <<"d", "e", "n", "y">>,
     chunk_index |-> NoChunk]

\* HTTP 400, "No grid with id: 14295": an invalid request naming a sheet id
InvalidRequest ==
    [type |-> "APIError", code |-> 400,
     msg |-> <<"i", "d", ":", "1", "4", "2", "9", "5">>,
     chunk_index |-> NoChunk]

\* a transport failure, not a gspread APIError
ConnectionError ==
    [type |-> "ConnectionError", code |-> 0, msg |-> <<"r", "e", "s", "e", "t">>,
     chunk_index |-> NoChunk]

RemoteErrors == {QuotaExceeded, PermissionDenied, InvalidRequest, ConnectionError}

\* str(e) of an exception: the status followed by the message
StrOf(e) == IF e.code = 0 THEN e.msg ELSE Digits(e.code) \o e.msg

\* variant: no failure is ever taken for a rate limit
is_rate_limit_error_never(e) == FALSE

is_rate_limit_error(e) == Contains(StrOf(e), <<"4", "2", "9">>)

(***************************************************************************)
(* Durations are rationals num/den, compared by cross multiplication.      *)
(***************************************************************************)
Dur(n, d) == [num |-> n, den |-> d]
DurLeq(x, y) == x.num * y.den <= y.num * x.den

RECURSIVE Pow(_, _)
Pow(b, e) == IF e = 0 THEN 1 ELSE b * Pow(b, e - 1)

\* min(max_sleep_seconds, base_sleep_seconds * (1.5 ** attempt))
sleep_s_uncapped(max_sleep, base_sleep, a) == Dur(base_sleep * Pow(3, a), Pow(2, a))

sleep_s(max_sleep, base_sleep, a) ==
    IF DurLeq(Dur(max_sleep, 1), Dur(base_sleep * Pow(3, a), Pow(2, a)))
    THEN Dur(max_sleep, 1)
    ELSE Dur(base_sleep * Pow(3, a), Pow(2, a))

(***************************************************************************)
(* State.                                                                  *)
(***************************************************************************)
VARIABLES
    requests,            \* the request list handed to batch_update_with_retry
    chunk_size,
    max_attempts,
    base_sleep_seconds,
    max_sleep_seconds,
    i,                   \* loop variable of batch_update_with_retry
    attempt,             \* loop variable of retry_on_429
    last_exc,
    pc,                  \* position of the engine
    calls,               \* remote calls made, in order
    applied,             \* batches the remote side has applied, in order
    sleeps,              \* time.sleep calls made, in order
    raised               \* the exception that reached the caller

VARIABLES
    builder,             \* the builder whose formatting requests are being sent
    batch_requests,      \* the requests the builder has collected
    batch_i,             \* loop variable i of the builder's batch loop
    req_j,               \* position of "for req in batch_chunk" (fallback)
    caught,              \* the exception e the builder's handler last caught
    bpc                  \* position of the builder

VARIABLES
    template,            \* the sampleMetadata sheet of the full template, as read
    input_df,            \* the rows of the checklist
    req_lev,             \* the selected requirement levels
    sample_type,         \* the selected sample types
    assay_type,
    assay_name,          \* the assay names, in order
    sampleMetadata_user, \* the user-defined fields, in order
    sheet_df,            \* the grid being assembled: its columns, in order
    apc                  \* position of create_sample_metadata_sheet

VARIABLES
    noaa_checklist,         \* the rows of the sheet "checklist" of the NOAA checklist
    projectMetadata,        \* the projectMetadata worksheet of the spreadsheet
    experimentRunMetadata,  \* the experimentRunMetadata worksheet
    data,                   \* the worksheet as the running function read it
    converted,              \* the two worksheets as the first conversion left them
    runs,                   \* the number of the conversion under way
    fpc,                    \* position of FAIRe2NODE
    sampleMetadata,         \* the sampleMetadata worksheet of the spreadsheet
    sample_data,            \* that worksheet as add_noaa_fields_to_sample_metadata read it
    config,                 \* NOAA_config.yaml: project_id and analysis_run_name
    analysis_worksheets,    \* the keys of the dict create_analysis_metadata_sheets returns
    analysis_sheets         \* all_data of the analysisMetadata sheets filled so far

VARIABLES
    project_meta_df,        \* the projectMetadata data frame: columns and rows
    projectMetadata_user,   \* the user-defined fields of the project, in order
    new_row,                \* the row below the term names of the sample grid
    experiment_df,          \* the experimentRunMetadata grid: its rows, in order
    ppc,                    \* position of create_project_metadata_sheet
    xpc,                    \* position of create_experiment_metadata_sheet
    mpc,                    \* position of FAIReSheets
    checklist_file,         \* what reading the checklist meets
    template_file,          \* what reading the full template meets
    existing_sheets,        \* the worksheet titles of the spreadsheet, in order
    experimentRunMetadata_user  \* the user-defined fields FAIReSheets is given

engineVars == <<requests, chunk_size, max_attempts, base_sleep_seconds,
                max_sleep_seconds, i, attempt, last_exc, pc>>
remoteVars == <<calls, applied, sleeps, raised>>
buildVars == <<builder, batch_requests, batch_i, req_j, caught, bpc>>
asmVars == <<template, input_df, req_lev, sample_type, assay_type, assay_name,
             sampleMetadata_user, sheet_df, apc>>
profileVars == <<noaa_checklist, projectMetadata, experimentRunMetadata, data,
                 converted, runs, fpc, sampleMetadata, sample_data,
                 config, analysis_worksheets, analysis_sheets>>
sheetVars == <<project_meta_df, projectMetadata_user, new_row, experiment_df,
               ppc, xpc, mpc, checklist_file, template_file, existing_sheets,
               experimentRunMetadata_user>>
vars == <<engineVars, remoteVars, buildVars, asmVars, profileVars, sheetVars>>
notEngine == <<buildVars, asmVars, profileVars, sheetVars>>
notBuild == <<engineVars, asmVars, profileVars, sheetVars>>
notAsm == <<engineVars, remoteVars, buildVars, profileVars, sheetVars>>
\* a function of the conversion collects batch_requests (none when it returns
\* early) and is seen in applied and raised
notProfile == <<engineVars, asmVars, sheetVars, builder, batch_i, req_j, caught, bpc,
                calls, sleeps, config, analysis_worksheets, analysis_sheets>>
\* what the two functions of the analysisMetadata sheets leave alone
notAnalysis == <<engineVars, asmVars, sheetVars, builder, batch_i, req_j, caught, bpc,
                 calls, noaa_checklist,
                 projectMetadata, experimentRunMetadata, data, converted, runs,
                 sampleMetadata, sample_data, config>>
\* the sampleMetadata worksheet, which one function of the conversion touches
profileSampleVars == <<sampleMetadata, sample_data>>
\* what the grid builders and FAIReSheets are called with
configVars == <<template, input_df, req_lev, sample_type, assay_type, assay_name,
                sampleMetadata_user, projectMetadata_user, checklist_file,
                template_file, existing_sheets,
                experimentRunMetadata_user>>
\* what neither a grid builder nor FAIReSheets touches before its requests are sent
notSheets == <<engineVars, profileVars, calls, sleeps, batch_i, req_j, caught>>
sampleVars == <<sheet_df, apc, new_row>>
projectVars == <<project_meta_df, ppc>>
experimentVars == <<experiment_df, xpc>>
sendVars == <<builder, batch_requests, bpc>>

\* variant: the slice misses its last element
Slice_short(s, lo, hi) == SubSeq(s, lo + 1, Min(hi, Len(s)) - 1)

\* requests[lo:hi] of Python, on a 1-based sequence
Slice(s, lo, hi) == SubSeq(s, lo + 1, Min(hi, Len(s)))

\* the requests are told apart by their position in the list
RequestList(n) == [k \in 1..n |-> k]

RemoteIdle ==
    /\ calls = <<>>
    /\ applied = <<>>
    /\ sleeps = <<>>
    /\ raised = NoException

BuildIdle ==
    /\ builder = "none"
    /\ batch_requests = <<>>
    /\ batch_i = 0
    /\ req_j = 0
    /\ caught = NoException
    /\ bpc = "idle"

AsmIdle ==
    /\ template = <<>>
    /\ input_df = <<>>
    /\ req_lev = {}
    /\ sample_type = <<>>
    /\ assay_type = "metabarcoding"
    /\ assay_name = <<>>
    /\ sampleMetadata_user = <<>>
    /\ sheet_df = <<>>
    /\ apc = "idle"

\* no configuration loaded
NoConfig == [project_id |-> "", analysis_run_name |-> <<>>]

ProfileIdle ==
    /\ noaa_checklist = <<>>
    /\ projectMetadata = <<>>
    /\ experimentRunMetadata = <<>>
    /\ data = <<>>
    /\ converted = <<>>
    /\ runs = 0
    /\ fpc = "idle"
    /\ sampleMetadata = <<>>
    /\ sample_data = <<>>
    /\ config = NoConfig
    /\ analysis_worksheets = <<>>
    /\ analysis_sheets = <<>>

SheetsIdle ==
    /\ project_meta_df = <<>>
    /\ projectMetadata_user = <<>>
    /\ new_row = <<>>
    /\ experiment_df = <<>>
    /\ ppc = "idle"
    /\ xpc = "idle"
    /\ mpc = "idle"
    /\ checklist_file = "ok"
    /\ template_file = "ok"
    /\ existing_sheets = <<>>
    /\ experimentRunMetadata_user = <<>>

EngineIdle ==
    /\ requests = <<>>
    /\ chunk_size = 1
    /\ max_attempts = 1
    /\ base_sleep_seconds = 1
    /\ max_sleep_seconds = 1
    /\ i = 0
    /\ attempt = 0
    /\ last_exc = NoException
    /\ pc = "idle"

EngineInit ==
    /\ requests \in {RequestList(n) : n \in 0..MaxRequests}
    /\ chunk_size \in 1..MaxChunkSize
    /\ max_attempts \in 1..MaxAttempts
    /\ base_sleep_seconds \in 1..MaxBaseSleep
    /\ max_sleep_seconds \in 1..MaxSleepCap
    /\ i = 0
    /\ attempt = 0
    /\ last_exc = NoException
    /\ pc = "start"
    /\ RemoteIdle
    /\ BuildIdle
    /\ AsmIdle
    /\ ProfileIdle
    /\ SheetsIdle

\* one call of spreadsheet.batch_update, as the log keeps it
Call(via, chunk, batch, outcome) ==
    [via |-> via, chunk |-> chunk, batch |-> batch, ok |-> outcome = NoException]

\* batch_update_with_retry: "if not requests: return", else the first chunk
batch_update_with_retry ==
    /\ pc = "start"
    /\ pc' = IF requests = <<>> THEN "done" ELSE "call"
    /\ UNCHANGED <<requests, chunk_size, max_attempts, base_sleep_seconds,
                   max_sleep_seconds, i, attempt, last_exc, remoteVars, notEngine>>

\* variant: the for loop of batch_update_with_retry does not move on
retry_on_429_return_stays ==
    /\ pc = "call"
    /\ calls' = Append(calls, Call("retry_on_429", i \div chunk_size,
                                   Slice(requests, i, i + chunk_size), NoException))
    /\ applied' = Append(applied, Slice(requests, i, i + chunk_size))
    /\ attempt' = 0
    /\ last_exc' = NoException
    /\ UNCHANGED <<requests, chunk_size, max_attempts, base_sleep_seconds,
                   max_sleep_seconds, i, pc, sleeps, raised, notEngine>>

\* retry_on_429: fn() returns; the for loop of batch_update_with_retry goes on
retry_on_429_return ==
    /\ pc = "call"
    /\ calls' = Append(calls, Call("retry_on_429", i \div chunk_size,
                                   Slice(requests, i, i + chunk_size), NoException))
    /\ applied' = Append(applied, Slice(requests, i, i + chunk_size))
    /\ i' = i + chunk_size
    /\ attempt' = 0
    /\ last_exc' = NoException
    /\ pc' = IF i + chunk_size >= Len(requests) THEN "done" ELSE "call"
    /\ UNCHANGED <<requests, chunk_size, max_attempts, base_sleep_seconds,
                   max_sleep_seconds, sleeps, raised, notEngine>>

\* variant: the handler does not keep the exception in last_exc
retry_on_429_except_forgets(e) ==
    /\ pc = "call"
    /\ calls' = Append(calls, Call("retry_on_429", i \div chunk_size,
                                   Slice(requests, i, i + chunk_size), e))
    /\ IF e.type # "APIError" \/ ~is_rate_limit_error(e)
       THEN raised' = e /\ pc' = "raised"
       ELSE pc' = "sleep" /\ UNCHANGED raised
    /\ UNCHANGED <<requests, chunk_size, max_attempts, base_sleep_seconds,
                   max_sleep_seconds, i, attempt, last_exc, applied, sleeps, notEngine>>

\* retry_on_429: fn() raises e
retry_on_429_except(e) ==
    /\ pc = "call"
    /\ calls' = Append(calls, Call("retry_on_429", i \div chunk_size,
                                   Slice(requests, i, i + chunk_size), e))
    /\ IF e.type # "APIError"
       THEN \* not caught by "except gspread.exceptions.APIError"
            /\ raised' = e
            /\ pc' = "raised"
            /\ UNCHANGED last_exc
       ELSE /\ last_exc' = e
            /\ IF ~is_rate_limit_error(e)
               THEN raised' = e /\ pc' = "raised"
               ELSE pc' = "sleep" /\ UNCHANGED raised
    /\ UNCHANGED <<requests, chunk_size, max_attempts, base_sleep_seconds,
                   max_sleep_seconds, i, attempt, applied, sleeps, notEngine>>

\* variant: when the attempts run out the loop goes on to the next chunk
retry_on_429_sleep_skips ==
    /\ pc = "sleep"
    /\ sleeps' = Append(sleeps,
           [by |-> "retry_on_429", chunk |-> i \div chunk_size, attempt |-> attempt,
            sleep_s |-> sleep_s(max_sleep_seconds, base_sleep_seconds, attempt)])
    /\ IF attempt + 1 >= max_attempts
       THEN /\ attempt' = 0
            /\ i' = i + chunk_size
            /\ pc' = IF i + chunk_size >= Len(requests) THEN "done" ELSE "call"
       ELSE /\ attempt' = attempt + 1
            /\ pc' = "call"
            /\ UNCHANGED i
    /\ UNCHANGED <<requests, chunk_size, max_attempts, base_sleep_seconds,
                   max_sleep_seconds, last_exc, calls, applied, raised, notEngine>>

\* retry_on_429: time.sleep(sleep_s), then the next attempt or "raise last_exc"
retry_on_429_sleep ==
    /\ pc = "sleep"
    /\ sleeps' = Append(sleeps,
           [by |-> "retry_on_429", chunk |-> i \div chunk_size, attempt |-> attempt,
            sleep_s |-> sleep_s(max_sleep_seconds, base_sleep_seconds, attempt)])
    /\ attempt' = attempt + 1
    /\ IF attempt + 1 >= max_attempts
       THEN raised' = last_exc /\ pc' = "raised"
       ELSE pc' = "call" /\ UNCHANGED raised
    /\ UNCHANGED <<requests, chunk_size, max_attempts, base_sleep_seconds,
                   max_sleep_seconds, i, last_exc, calls, applied, notEngine>>

EngineNext ==
    \/ batch_update_with_retry
    \/ retry_on_429_return
    \/ \E e \in RemoteErrors : retry_on_429_except(e)
    \/ retry_on_429_sleep

SpecEngine == EngineInit /\ [][EngineNext]_vars

(***************************************************************************)
(* Properties of the engine.                                               *)
(***************************************************************************)
RECURSIVE Flatten(_)
Flatten(ss) == IF ss = <<>> THEN <<>> ELSE Head(ss) \o Flatten(Tail(ss))

IsPrefix(s, t) == Len(s) <= Len(t) /\ SubSeq(t, 1, Len(s)) = s

\* the batches of the calls 1..k that send their chunk for the first time
RECURSIVE FirstSent(_)
FirstSent(k) ==
    IF k = 0 THEN <<>>
    ELSE FirstSent(k - 1) \o
         (IF \A j \in 1..(k - 1) : calls[j].chunk # calls[k].chunk
          THEN <<calls[k].batch>> ELSE <<>>)

CallsOfChunk(c) == {k \in 1..Len(calls) : calls[k].chunk = c}
SleepsOfChunk(c) == {k \in 1..Len(sleeps) : sleeps[k].chunk = c}
NumChunks == (Len(requests) + chunk_size - 1) \div chunk_size

\* C1: every batch sent holds between 1 and chunk_size requests; the chunks, in
\* the order they are first sent, concatenate to a prefix of the request list
\* and, when the engine returns, to the request list itself.
C1_ChunkOrdering ==
    /\ \A k \in 1..Len(calls) : Len(calls[k].batch) \in 1..chunk_size
    /\ IsPrefix(Flatten(FirstSent(Len(calls))), requests)
    /\ pc = "done" => Flatten(FirstSent(Len(calls))) = requests

C1_Witness ==
    /\ pc = "done"
    /\ Len(applied) >= 2
    /\ Len(requests) % chunk_size # 0
    /\ Len(calls) > Len(applied)

\* C2: a failed call that is followed by another call is followed by a call that
\* sends the identical chunk, with a sleep in between; a chunk is sent at most
\* max_attempts times; a 429 is fatal only once the attempts have run out; a
\* chunk is sent only after the chunk before it has been applied.
C2_RetrySameChunk ==
    /\ \A k \in 1..(Len(calls) - 1) :
          ~calls[k].ok =>
              /\ calls[k + 1].chunk = calls[k].chunk
              /\ calls[k + 1].batch = calls[k].batch
    /\ \A c \in 0..NumChunks :
          /\ Cardinality(CallsOfChunk(c)) <= max_attempts
          /\ Cardinality(SleepsOfChunk(c)) >= Cardinality(CallsOfChunk(c)) - 1
    /\ (pc = "sleep" /\ last_exc = QuotaExceeded) =>
          ~calls[Len(calls)].ok
    /\ (pc = "raised" /\ raised = QuotaExceeded) =>
          Cardinality(CallsOfChunk(calls[Len(calls)].chunk)) = max_attempts
    /\ \A k \in 1..Len(calls) :
          calls[k].chunk > 0 =>
              \E j \in 1..(k - 1) : calls[j].chunk = calls[k].chunk - 1 /\ calls[j].ok

C2_Witness ==
    /\ Len(calls) >= 4
    /\ ~calls[1].ok /\ calls[2].ok /\ calls[2].batch = calls[1].batch
    /\ ~calls[3].ok /\ calls[4].ok /\ calls[4].chunk = 1
    /\ Len(sleeps) = 2

\* C3: a failure that is not quota-exceeded (HTTP 429) ends the run at once: the
\* engine is never about to sleep for it, and it is the error the caller gets.
C3_NonQuotaAborts ==
    (last_exc # NoException /\ last_exc.code # 429) =>
        (pc = "raised" /\ raised = last_exc)

\* C4 as stated: when the attempts for a chunk have run out, the error raised is
\* a QuotaExhausted error that carries the index of the first unapplied chunk.
C4_QuotaExhaustedCarriesIndex ==
    (pc = "raised" /\ attempt = max_attempts) =>
        /\ raised.type = "QuotaExhausted"
        /\ raised.chunk_index = i \div chunk_size

\* C4 as amended: when the attempts for a chunk have run out, the error raised
\* is the APIError of the last attempt, unchanged; it carries no chunk index.
\* The first unapplied chunk is the one of the last call, and its index is the
\* number of chunks applied.
C4_RaisesLastException ==
    (pc = "raised" /\ attempt = max_attempts) =>
        /\ raised = last_exc
        /\ raised.type = "APIError"
        /\ raised.code = 429 \/ Contains(raised.msg, <<"4", "2", "9">>)
        /\ raised.chunk_index = NoChunk
        /\ calls[Len(calls)].chunk = Len(applied)
        /\ ~calls[Len(calls)].ok

C4_Witness ==
    /\ pc = "raised"
    /\ attempt = max_attempts
    /\ max_attempts >= 2
    /\ Len(applied) >= 1
    /\ raised = QuotaExceeded

\* C5: at every point of a run the remote side has applied exactly the chunks
\* before the current one, each once and in order, and no chunk after the
\* current one has been sent; when the run ends with an error, the current
\* chunk is the failing one.
C5_AppliedPrefix ==
    pc # "idle" =>
        /\ Len(applied) = Min(i \div chunk_size, NumChunks)
        /\ \A c \in 1..Len(applied) :
              applied[c] = SubSeq(requests, (c - 1) * chunk_size + 1,
                                  Min(c * chunk_size, Len(requests)))
        /\ \A k \in 1..Len(calls) : calls[k].chunk <= Len(applied)
        /\ pc = "raised" =>
              /\ calls[Len(calls)].chunk = Len(applied)
              /\ ~calls[Len(calls)].ok
        /\ Cardinality({k \in 1..Len(calls) : calls[k].ok}) = Len(applied)

C5_Witness ==
    /\ pc = "raised"
    /\ Len(applied) = 2
    /\ Len(calls) >= 4
    /\ Len(requests) > 2 * chunk_size

\* C6: the delays slept for one chunk are numbered 0, 1, 2, ... in order, the
\* delay numbered a is min(max_sleep_seconds, base_sleep_seconds * 1.5^a),
\* no delay exceeds max_sleep_seconds and the delays never decrease.
C6_BackoffBound ==
    \A k \in 1..Len(sleeps) :
        LET s == sleeps[k] IN
        /\ s.attempt = Cardinality({j \in 1..(k - 1) : sleeps[j].chunk = s.chunk})
        /\ DurLeq(s.sleep_s, Dur(max_sleep_seconds, 1))
        /\ s.sleep_s.num * Pow(2, s.attempt) =
               Min(max_sleep_seconds * Pow(2, s.attempt) * s.sleep_s.den,
                   base_sleep_seconds * Pow(3, s.attempt) * s.sleep_s.den)
        /\ (k > 1 /\ sleeps[k - 1].chunk = s.chunk) =>
               DurLeq(sleeps[k - 1].sleep_s, s.sleep_s)

\* the case of the specification: maxAttempts = 5, baseDelay = 1, maxDelay = 8
C6_Witness ==
    /\ max_attempts = 5
    /\ base_sleep_seconds = 1
    /\ max_sleep_seconds = 8
    /\ Len(sleeps) = 5
    /\ \A k \in 1..5 : sleeps[k].chunk = 0
    /\ sleeps[5].sleep_s = Dur(81, 16)

(***************************************************************************)
(* The formatting loops of the grid builders and the delete step of the    *)
(* profile transformer.  Each sends its requests with its own code.        *)
(***************************************************************************)
GridBuilders == {"sampleMetadata", "experimentRunMetadata", "targeted"}
Senders == GridBuilders \cup {"remove_bioinfo"}

\* "gspread" is not imported by sample_metadata_sheet.py: evaluating the clause
\* "except gspread.exceptions.APIError" raises this
NameError ==
    [type |-> "NameError", code |-> 0,
     msg |-> <<"g", "s", "p", "r", "e", "a", "d">>, chunk_index |-> NoChunk]

\* raise Exception(f"Error removing bioinformatics fields ...: {e}")
Wrapped(e) ==
    [type |-> "Exception", code |-> 0, msg |-> StrOf(e), chunk_index |-> NoChunk]

sample_batch_size == 8
experiment_batch_size == 5
targeted_batch_size == 5

sample_batch_sleep == Dur(1, 1)
experiment_batch_sleep == Dur(1, 1)
\* variant: the delay of the sampleMetadata copy of the loop
experiment_rate_limit_sleep_3 == Dur(3, 1)
experiment_rate_limit_sleep == Dur(5, 1)
experiment_request_sleep == Dur(1, 1)
targeted_batch_sleep == Dur(5, 1)
targeted_rate_limit_sleep == Dur(30, 1)
remove_bioinfo_rate_limit_sleep == Dur(60, 1)

Slept(by, chunk, d) == [by |-> by, chunk |-> chunk, attempt |-> 0, sleep_s |-> d]

BuildInit ==
    /\ builder \in Senders
    /\ batch_requests \in {RequestList(n) : n \in 0..MaxBatchRequests}
    \* sampleMetadata and experimentRunMetadata always format the header row
    /\ builder \in {"sampleMetadata", "experimentRunMetadata"} => batch_requests # <<>>
    /\ batch_i = 0
    /\ req_j = 0
    /\ caught = NoException
    /\ bpc = "start"
    /\ EngineIdle
    /\ RemoteIdle
    /\ AsmIdle
    /\ ProfileIdle
    /\ SheetsIdle

\* position after the chunk that starts at batch_i, for batches of size n
AfterChunk(n) == IF batch_i + n >= Len(batch_requests) THEN "returned" ELSE "call"

\* "if batch_requests:"
builder_start ==
    /\ bpc = "start"
    /\ bpc' = IF batch_requests = <<>> THEN "returned" ELSE "call"
    /\ UNCHANGED <<builder, batch_requests, batch_i, req_j, caught, remoteVars, notBuild>>

\* create_sample_metadata_sheet: batch_update of a chunk returns, time.sleep(1)
sample_batch_update_ok ==
    /\ bpc = "call" /\ builder = "sampleMetadata"
    /\ LET batch_chunk == Slice(batch_requests, batch_i, batch_i + sample_batch_size)
           chunk == batch_i \div sample_batch_size
       IN /\ calls' = Append(calls, Call(builder, chunk, batch_chunk, NoException))
          /\ applied' = Append(applied, batch_chunk)
          /\ sleeps' = Append(sleeps, Slept(builder, chunk, sample_batch_sleep))
    /\ batch_i' = batch_i + sample_batch_size
    /\ bpc' = AfterChunk(sample_batch_size)
    /\ UNCHANGED <<builder, batch_requests, req_j, caught, raised, notBuild>>

\* create_sample_metadata_sheet: batch_update raises; matching the exception
\* against "gspread.exceptions.APIError" raises NameError, which no handler of
\* the function catches
sample_batch_update_fails(e) ==
    /\ bpc = "call" /\ builder = "sampleMetadata"
    /\ calls' = Append(calls, Call(builder, batch_i \div sample_batch_size,
                  Slice(batch_requests, batch_i, batch_i + sample_batch_size), e))
    /\ raised' = NameError
    /\ bpc' = "raised"
    /\ UNCHANGED <<builder, batch_requests, batch_i, req_j, caught, applied, sleeps,
                   notBuild>>

\* create_experiment_metadata_sheet: batch_update of a chunk returns
experiment_batch_update_ok ==
    /\ bpc = "call" /\ builder = "experimentRunMetadata"
    /\ LET batch_chunk == Slice(batch_requests, batch_i, batch_i + experiment_batch_size)
           chunk == batch_i \div experiment_batch_size
       IN /\ calls' = Append(calls, Call(builder, chunk, batch_chunk, NoException))
          /\ applied' = Append(applied, batch_chunk)
          /\ sleeps' = Append(sleeps, Slept(builder, chunk, experiment_batch_sleep))
    /\ batch_i' = batch_i + experiment_batch_size
    /\ bpc' = AfterChunk(experiment_batch_size)
    /\ UNCHANGED <<builder, batch_requests, req_j, caught, raised, notBuild>>

\* variant: an error that is not a rate limit is raised again
experiment_batch_update_fails_raises(e) ==
    /\ bpc = "call" /\ builder = "experimentRunMetadata"
    /\ calls' = Append(calls, Call(builder, batch_i \div experiment_batch_size,
                  Slice(batch_requests, batch_i, batch_i + experiment_batch_size), e))
    /\ caught' = e
    /\ IF e.type = "APIError" /\ Contains(StrOf(e), <<"4", "2", "9">>)
       THEN /\ sleeps' = Append(sleeps, Slept(builder, batch_i \div experiment_batch_size,
                                              experiment_rate_limit_sleep))
            /\ req_j' = 0
            /\ bpc' = "fallback"
            /\ UNCHANGED <<batch_i, raised>>
       ELSE /\ raised' = e
            /\ bpc' = "raised"
            /\ UNCHANGED <<batch_i, req_j, sleeps>>
    /\ UNCHANGED <<builder, batch_requests, applied, notBuild>>

\* create_experiment_metadata_sheet: batch_update of a chunk raises e
experiment_batch_update_fails(e) ==
    /\ bpc = "call" /\ builder = "experimentRunMetadata"
    /\ calls' = Append(calls, Call(builder, batch_i \div experiment_batch_size,
                  Slice(batch_requests, batch_i, batch_i + experiment_batch_size), e))
    /\ caught' = e
    /\ IF e.type = "APIError" /\ Contains(StrOf(e), <<"4", "2", "9">>)
       THEN \* time.sleep(5), then the requests of the chunk one by one
            /\ sleeps' = Append(sleeps, Slept(builder, batch_i \div experiment_batch_size,
                                              experiment_rate_limit_sleep))
            /\ req_j' = 0
            /\ bpc' = "fallback"
            /\ UNCHANGED batch_i
       ELSE \* a warning is printed and the loop goes on
            /\ batch_i' = batch_i + experiment_batch_size
            /\ bpc' = AfterChunk(experiment_batch_size)
            /\ UNCHANGED <<req_j, sleeps>>
    /\ UNCHANGED <<builder, batch_requests, applied, raised, notBuild>>

\* position after the request req_j of the chunk sent request by request
AfterRequest ==
    IF req_j + 1 >= Len(Slice(batch_requests, batch_i, batch_i + experiment_batch_size))
    THEN /\ batch_i' = batch_i + experiment_batch_size
         /\ req_j' = 0
         /\ bpc' = AfterChunk(experiment_batch_size)
    ELSE /\ req_j' = req_j + 1
         /\ UNCHANGED <<batch_i, bpc>>

\* create_experiment_metadata_sheet: "for req in batch_chunk", batch_update of
\* the single request returns, time.sleep(1)
experiment_fallback_ok ==
    /\ bpc = "fallback"
    /\ LET req == batch_requests[batch_i + req_j + 1]
           chunk == batch_i \div experiment_batch_size
       IN /\ calls' = Append(calls, Call(builder, chunk, <<req>>, NoException))
          /\ applied' = Append(applied, <<req>>)
          /\ sleeps' = Append(sleeps, Slept(builder, chunk, experiment_request_sleep))
    /\ AfterRequest
    /\ UNCHANGED <<builder, batch_requests, caught, raised, notBuild>>

\* create_experiment_metadata_sheet: batch_update of the single request raises;
\* "except Exception as inner_e" prints a warning
experiment_fallback_fails(e) ==
    /\ bpc = "fallback"
    /\ calls' = Append(calls, Call(builder, batch_i \div experiment_batch_size,
                                   <<batch_requests[batch_i + req_j + 1]>>, e))
    /\ caught' = e
    /\ AfterRequest
    /\ UNCHANGED <<builder, batch_requests, applied, sleeps, raised, notBuild>>

\* the sleeps so far, and "if i > 0: time.sleep(5)" of create_targeted_sheets
TargetedWait ==
    IF batch_i > 0
    THEN Append(sleeps, Slept(builder, batch_i \div targeted_batch_size, targeted_batch_sleep))
    ELSE sleeps

\* create_targeted_sheets: batch_update of a batch of validations returns
targeted_batch_update_ok ==
    /\ bpc = "call" /\ builder = "targeted"
    /\ LET batch == Slice(batch_requests, batch_i, batch_i + targeted_batch_size)
       IN /\ calls' = Append(calls, Call(builder, batch_i \div targeted_batch_size,
                                         batch, NoException))
          /\ applied' = Append(applied, batch)
    /\ sleeps' = TargetedWait
    /\ batch_i' = batch_i + targeted_batch_size
    /\ bpc' = AfterChunk(targeted_batch_size)
    /\ UNCHANGED <<builder, batch_requests, req_j, caught, raised, notBuild>>

\* create_targeted_sheets: batch_update raises; "except Exception as e" prints,
\* sleeps 30 seconds if "429" in str(e), and the loop goes on
targeted_batch_update_fails(e) ==
    /\ bpc = "call" /\ builder = "targeted"
    /\ calls' = Append(calls, Call(builder, batch_i \div targeted_batch_size,
                  Slice(batch_requests, batch_i, batch_i + targeted_batch_size), e))
    /\ caught' = e
    /\ sleeps' = IF Contains(StrOf(e), <<"4", "2", "9">>)
                 THEN Append(TargetedWait, Slept(builder, batch_i \div targeted_batch_size,
                                                 targeted_rate_limit_sleep))
                 ELSE TargetedWait
    /\ batch_i' = batch_i + targeted_batch_size
    /\ bpc' = AfterChunk(targeted_batch_size)
    /\ UNCHANGED <<builder, batch_requests, req_j, applied, raised, notBuild>>

\* remove_bioinfo_fields_from_project_metadata: the batch delete returns
remove_bioinfo_batch_update_ok ==
    /\ bpc \in {"call", "retry"} /\ builder = "remove_bioinfo"
    /\ calls' = Append(calls, Call(builder, 0, batch_requests, NoException))
    /\ applied' = Append(applied, batch_requests)
    /\ bpc' = "returned"
    /\ UNCHANGED <<builder, batch_requests, batch_i, req_j, caught, sleeps, raised,
                   notBuild>>

\* remove_bioinfo_fields_from_project_metadata: the batch delete raises e: on
\* an APIError with "429" in str(e), time.sleep(60) and one more call; any other
\* exception, and any exception of the second call, leaves the function wrapped
remove_bioinfo_batch_update_fails(e) ==
    /\ bpc \in {"call", "retry"} /\ builder = "remove_bioinfo"
    /\ calls' = Append(calls, Call(builder, 0, batch_requests, e))
    /\ IF bpc = "call" /\ e.type = "APIError" /\ Contains(StrOf(e), <<"4", "2", "9">>)
       THEN /\ caught' = e
            /\ sleeps' = Append(sleeps, Slept(builder, 0, remove_bioinfo_rate_limit_sleep))
            /\ bpc' = "retry"
            /\ UNCHANGED raised
       ELSE /\ raised' = Wrapped(e)
            /\ bpc' = "raised"
            /\ UNCHANGED <<caught, sleeps>>
    /\ UNCHANGED <<builder, batch_requests, batch_i, req_j, applied, notBuild>>

BuildNext ==
    \/ builder_start
    \/ sample_batch_update_ok
    \/ \E e \in RemoteErrors : sample_batch_update_fails(e)
    \/ experiment_batch_update_ok
    \/ \E e \in RemoteErrors : experiment_batch_update_fails(e)
    \/ experiment_fallback_ok
    \/ \E e \in RemoteErrors : experiment_fallback_fails(e)
    \/ targeted_batch_update_ok
    \/ \E e \in RemoteErrors : targeted_batch_update_fails(e)
    \/ remove_bioinfo_batch_update_ok
    \/ \E e \in RemoteErrors : remove_bioinfo_batch_update_fails(e)

SpecBuilders == BuildInit /\ [][BuildNext]_vars

(***************************************************************************)
(* Properties of the builders' loops.                                      *)
(***************************************************************************)
Range(f) == {f[x] : x \in DOMAIN f}

CallsSending(r) == {k \in 1..Len(calls) : r \in Range(calls[k].batch)}

AllowedSleeps(b) ==
    CASE b = "sampleMetadata" -> {Dur(1, 1)}
      [] b = "experimentRunMetadata" -> {Dur(1, 1), Dur(5, 1)}
      [] b = "targeted" -> {Dur(5, 1), Dur(30, 1)}
      [] b = "remove_bioinfo" -> {Dur(60, 1)}
      [] OTHER -> {}

Levels == {"M", "HR", "R", "O"}

Water == <<"W", "a", "t", "e", "r">>
water == <<"w", "a", "t", "e", "r">>
Soil == <<"S", "o", "i", "l">>
other == <<"o", "t", "h", "e", "r">>
Other == <<"O", "t", "h", "e", "r">>
ALL == <<"A", "L", "L">>

\* a cell of the column sample_type_specificity: NaN when it is empty
NaN == [na |-> TRUE, str |-> <<>>]
Specificity(str) == [na |-> FALSE, str |-> str]

Specificities ==
    {NaN, Specificity(ALL), Specificity(Water), Specificity(Soil),
     Specificity(Water \o <<"|">> \o Soil)}

LowerChar(c) ==
    CASE c = "W" -> "w" [] c = "S" -> "s" [] c = "O" -> "o"
      [] c = "A" -> "a" [] c = "L" -> "l" [] OTHER -> c

Lower(str) == [k \in 1..Len(str) |-> LowerChar(str[k])]

Col(name, section, level) == [name |-> name, section |-> section, level |-> level]

Row(term_name, requirement_level, specificity) ==
    [term_name |-> term_name, requirement_level |-> requirement_level,
     sample_type_specificity |-> specificity]

\* a field of the checklist: its row of the checklist and its template column
Field(name, section, level, specificity) ==
    [row |-> Row(name, level, specificity), col |-> Col(name, section, level)]

\* The first column of the template holds the labels of the header rows and,
\* in the term-name row, the field samp_name.
samp_name ==
    [row |-> Row("samp_name", "M", Specificity(ALL)),
     col |-> Col("samp_name", "# section", "# requirement_level_code")]

\* The checklists of the model: samp_name, a field A of any requirement level
\* and specificity, optionally detected_notDetected, and the fields B and C.
Schemas ==
    {<<samp_name, Field("A", "Sample collection", la, sa)>> \o det \o
       <<Field("B", "Environment", "O", Specificity(Water)),
         Field("C", "Environment", "HR", Specificity(Soil))>> :
         la \in Levels, sa \in Specificities,
         det \in {<<>>} \cup
                 {<<Field("detected_notDetected", "Targeted assay detection", ld,
                          Specificity(ALL))>> : ld \in {"M", "O"}}}

ReqLevChoices == {{}, {"M"}, {"M", "HR"}, {"R", "O"}, Levels}

SampleTypeChoices ==
    {<<>>, <<Water>>, <<Soil>>, <<Water, Soil>>, <<other>>, <<Water, Other>>, <<water>>}

AssayNames == {"x", "y"}

RECURSIVE SeqsUpTo(_, _)
SeqsUpTo(S, n) ==
    IF n = 0 THEN {<<>>}
    ELSE SeqsUpTo(S, n - 1) \cup
         {Append(q, x) : q \in {r \in SeqsUpTo(S, n - 1) : Len(r) = n - 1}, x \in S}

UserFieldList(n) == [k \in 1..n |-> <<"u1", "u2", "u3">>[k]]

AsmInit ==
    /\ \E schema \in Schemas :
          /\ template = [k \in 1..Len(schema) |-> schema[k].col]
          /\ input_df = [k \in 1..Len(schema) |-> schema[k].row]
    /\ req_lev \in ReqLevChoices
    /\ sample_type \in SampleTypeChoices
    /\ assay_type \in {"targeted", "metabarcoding"}
    /\ assay_name \in SeqsUpTo(AssayNames, MaxAssays)
    /\ sampleMetadata_user \in {UserFieldList(n) : n \in 0..MaxUserFields}
    /\ sheet_df = template
    /\ apc = "read"
    /\ EngineIdle
    /\ BuildIdle
    /\ RemoteIdle
    /\ ProfileIdle
    /\ SheetsIdle

\* any(s.lower() == 'other' for s in sample_type)
has_other(types) == \E k \in 1..Len(types) : Lower(types[k]) = other

\* str.contains('|'.join(sample_type), case=False, na=False): a search for one
\* of the alternatives; the empty pattern of an empty list is found anywhere
str_contains(cell, types) ==
    /\ ~cell.na
    /\ \/ types = <<>>
       \/ \E k \in 1..Len(types) : Contains(Lower(cell.str), Lower(types[k]))

\* variant: the test for 'ALL' is left out
filtered_terms_noALL(df, types) ==
    {df[k].term_name : k \in {n \in 1..Len(df) :
        \/ df[n].sample_type_specificity.na
        \/ str_contains(df[n].sample_type_specificity, types)}}

\* the term names of the checklist rows that are kept for the sample types
filtered_terms(df, types) ==
    {df[k].term_name : k \in {n \in 1..Len(df) :
        \/ df[n].sample_type_specificity.na
        \/ df[n].sample_type_specificity = Specificity(ALL)
        \/ str_contains(df[n].sample_type_specificity, types)}}

SelectCols(df, keep(_)) ==
    LET RECURSIVE Sel(_)
        Sel(k) == IF k = 0 THEN <<>>
                  ELSE Sel(k - 1) \o (IF keep(k) THEN <<df[k]>> ELSE <<>>)
    IN Sel(Len(df))

HasColumn(df, name) == \E k \in 1..Len(df) : df[k].name = name

\* variant: a new column becomes the first one after the labels
AddColumn_front(df, c) ==
    IF HasColumn(df, c.name)
    THEN [k \in 1..Len(df) |-> IF df[k].name = c.name THEN c ELSE df[k]]
    ELSE <<Head(df), c>> \o Tail(df)

\* sheet_df[name] = '' and the three cells written after it: a new last column,
\* or the cells of the column of that name when there is one
AddColumn(df, c) ==
    IF HasColumn(df, c.name)
    THEN [k \in 1..Len(df) |-> IF df[k].name = c.name THEN c ELSE df[k]]
    ELSE Append(df, c)

\* "Filter by sample type if not 'other'"
FilterSampleType ==
    /\ apc = "read"
    /\ sheet_df' =
          IF has_other(sample_type) THEN sheet_df
          ELSE LET keep(k) == sheet_df[k].name \in filtered_terms(input_df, sample_type)
               IN SelectCols(sheet_df, keep)
    /\ apc' = "sample_type_filtered"
    /\ UNCHANGED <<template, input_df, req_lev, sample_type, assay_type, assay_name,
                   sampleMetadata_user, notAsm>>

\* "Remove 'Targeted assay detection' section for metabarcoding"
DropTargetedSection ==
    /\ apc = "sample_type_filtered"
    /\ sheet_df' =
          IF assay_type = "metabarcoding"
          THEN LET keep(k) == sheet_df[k].section # "Targeted assay detection"
               IN SelectCols(sheet_df, keep)
          ELSE sheet_df
    /\ apc' = "section_dropped"
    /\ UNCHANGED <<template, input_df, req_lev, sample_type, assay_type, assay_name,
                   sampleMetadata_user, notAsm>>

RECURSIVE AddAssayColumns(_, _, _)
AddAssayColumns(df, names, level) ==
    IF names = <<>> THEN df
    ELSE AddAssayColumns(
             AddColumn(df, Col("detected_notDetected_" \o Head(names),
                               "Targeted assay detection", level)),
             Tail(names), level)

\* variant: the original column is not dropped
fan_out_keeps(df, names) ==
    LET k == CHOOSE n \in 1..Len(df) : df[n].name = "detected_notDetected"
    IN AddAssayColumns(df, names, df[k].level)

\* the column detected_notDetected is dropped and one column per assay name is
\* added, with the requirement level of the dropped column
fan_out(df, names) ==
    LET k == CHOOSE n \in 1..Len(df) : df[n].name = "detected_notDetected"
        keep(n) == n # k
    IN AddAssayColumns(SelectCols(df, keep), names, df[k].level)

\* "Handle detected_notDetected for targeted assays with multiple assay names"
FanOutDetected ==
    /\ apc = "section_dropped"
    /\ sheet_df' =
          IF /\ assay_type = "targeted"
             /\ Len(assay_name) > 1
             /\ HasColumn(sheet_df, "detected_notDetected")
          THEN fan_out(sheet_df, assay_name)
          ELSE sheet_df
    /\ apc' = "fanned_out"
    /\ UNCHANGED <<template, input_df, req_lev, sample_type, assay_type, assay_name,
                   sampleMetadata_user, notAsm>>

\* variant: every column is kept
keep_req_level_all(df, k, levels) == TRUE

\* cols_to_keep: the first column, and the columns whose requirement level is
\* selected or empty
keep_req_level(df, k, levels) ==
    k = 1 \/ df[k].level \in levels \/ df[k].level = ""

\* "Filter by requirement level"
FilterReqLevel ==
    /\ apc = "fanned_out"
    /\ sheet_df' = LET keep(k) == keep_req_level(sheet_df, k, req_lev)
                   IN SelectCols(sheet_df, keep)
    /\ apc' = "level_filtered"
    /\ UNCHANGED <<template, input_df, req_lev, sample_type, assay_type, assay_name,
                   sampleMetadata_user, notAsm>>

RECURSIVE AddUserColumns(_, _)
AddUserColumns(df, fields) ==
    IF fields = <<>> THEN df
    ELSE AddUserColumns(AddColumn(df, Col(Head(fields), "User defined", "O")),
                        Tail(fields))

\* "Add user-defined fields"
AddUserFields ==
    /\ apc = "level_filtered"
    /\ sheet_df' = AddUserColumns(sheet_df, sampleMetadata_user)
    /\ apc' = "assembled"
    /\ UNCHANGED <<template, input_df, req_lev, sample_type, assay_type, assay_name,
                   sampleMetadata_user, notAsm>>

AsmNext ==
    \/ FilterSampleType
    \/ DropTargetedSection
    \/ FanOutDetected
    \/ FilterReqLevel
    \/ AddUserFields

SpecAssemble == AsmInit /\ [][AsmNext]_vars

(***************************************************************************)
(* Properties of the assembled sampleMetadata grid.                        *)
(***************************************************************************)
Present(name) == HasColumn(sheet_df, name)

ColumnNames == [k \in 1..Len(sheet_df) |-> sheet_df[k].name]

\* the sample-type tags of a specificity "T1|T2|...", as a set
RECURSIVE Tags(_, _)
Tags(str, tag) ==
    IF str = <<>> THEN {tag}
    ELSE IF Head(str) = "|" THEN {tag} \cup Tags(Tail(str), <<>>)
    ELSE Tags(Tail(str), Append(tag, Head(str)))

SectionOf(name) ==
    LET k == CHOOSE n \in 1..Len(template) : template[n].name = name
    IN template[k].section

FanColumnNames == {"detected_notDetected_" \o a : a \in AssayNames}

\* the assay names without repetitions, in the order of their first occurrence
RECURSIVE Distinct(_)
Distinct(names) ==
    IF names = <<>> THEN <<>>
    ELSE LET front == Distinct(SubSeq(names, 1, Len(names) - 1))
             last == names[Len(names)]
         IN IF last \in Range(front) THEN front ELSE Append(front, last)

\* C9 as stated: a checklist field is in the assembled grid iff its requirement
\* level is selected and (the selected sample types contain "other", or its
\* applicability intersects them, or its applicability is "ALL" or unspecified).
C9_FilterCorrectness ==
    apc = "assembled" =>
        \A n \in 1..Len(input_df) :
            LET r == input_df[n] IN
            Present(r.term_name) <=>
                /\ r.requirement_level \in req_lev
                /\ \/ other \in Range(sample_type)
                   \/ r.sample_type_specificity.na
                   \/ r.sample_type_specificity.str = ALL
                   \/ Tags(r.sample_type_specificity.str, <<>>) \cap Range(sample_type) # {}

\* a sample type that the code takes to select the field of row r
SampleTypeSelects(r) ==
    \/ \E k \in 1..Len(sample_type) : Lower(sample_type[k]) = other
    \/ sample_type = <<>>
    \/ r.sample_type_specificity.na
    \/ r.sample_type_specificity.str = ALL
    \/ \E k \in 1..Len(sample_type) :
          Contains(Lower(r.sample_type_specificity.str), Lower(sample_type[k]))

\* C9 as amended: samp_name, the first column, is always in the assembled grid.
\* Any other checklist field is in the grid (under its name or, for
\* detected_notDetected, as its per-assay columns) iff its requirement level is
\* selected, it is not a field of the section "Targeted assay detection" of a
\* metabarcoding run, and (a selected sample type is "other" in any case of
\* letters, or no sample type is selected, or its applicability is "ALL" or
\* unspecified, or a selected sample type occurs in its applicability string,
\* the case of letters ignored).
C9_FilterAsCoded ==
    apc = "assembled" =>
        /\ Present("samp_name")
        /\ \A n \in 2..Len(input_df) :
              LET r == input_df[n] IN
              (\/ Present(r.term_name)
               \/ /\ r.term_name = "detected_notDetected"
                  /\ \E c \in FanColumnNames : Present(c))
              <=>
                (/\ r.requirement_level \in req_lev
                 /\ ~(/\ assay_type = "metabarcoding"
                      /\ SectionOf(r.term_name) = "Targeted assay detection")
                 /\ SampleTypeSelects(r))

\* the scenario of the specification: levels {M, HR}, sample type Water, fields
\* of level O/Water (dropped for its level) and HR/Soil (dropped for its sample
\* type); the grid is left with the field of level M/ALL alone
C9_Witness ==
    /\ apc = "assembled"
    /\ req_lev = {"M", "HR"}
    /\ sample_type = <<Water>>
    /\ Len(template) = 4
    /\ input_df[2] = Row("A", "M", Specificity(ALL))
    /\ sampleMetadata_user = <<>>
    /\ ColumnNames = <<"samp_name", "A">>

\* detected_notDetected is kept by the filters for the requirement levels and
\* the sample types
DetectedPasses ==
    \E n \in 1..Len(input_df) :
        /\ input_df[n].term_name = "detected_notDetected"
        /\ input_df[n].requirement_level \in req_lev
        /\ SampleTypeSelects(input_df[n])

DetectedLevel ==
    LET k == CHOOSE n \in 1..Len(template) : template[n].name = "detected_notDetected"
    IN template[k].level

\* the per-assay columns of the grid, in order
FanColumns == LET isFan(k) == sheet_df[k].name \in FanColumnNames
              IN SelectCols(sheet_df, isFan)

\* the columns detected_notDetected of the grid
PlainColumns == LET isPlain(k) == sheet_df[k].name = "detected_notDetected"
                IN SelectCols(sheet_df, isPlain)

\* one column detected_notDetected_<name> per assay name, in the order of the
\* assay names, each with the requirement level of the field, and no column
\* detected_notDetected
FannedOut ==
    /\ [k \in 1..Len(FanColumns) |-> FanColumns[k].name] =
           [k \in 1..Len(Distinct(assay_name)) |->
               "detected_notDetected_" \o Distinct(assay_name)[k]]
    /\ \A k \in 1..Len(FanColumns) : FanColumns[k].level = DetectedLevel
    /\ PlainColumns = <<>>

\* the single column detected_notDetected and no per-assay column
KeptPlain ==
    /\ FanColumns = <<>>
    /\ Len(PlainColumns) = 1
    /\ PlainColumns[1].level = DetectedLevel

\* C10 as stated: when detected_notDetected passes the filters, it is fanned
\* out if more than one assay name is selected and kept as the single plain
\* column if exactly one is.
C10_FanOut ==
    (apc = "assembled" /\ DetectedPasses) =>
        /\ Len(assay_name) > 1 => FannedOut
        /\ Len(assay_name) = 1 => KeptPlain

\* C10 as amended: in a targeted run, when detected_notDetected passes the
\* filters, it is fanned out (one column per distinct assay name) if more than
\* one assay name is selected and kept as the single plain column if exactly
\* one is; in a metabarcoding run the grid holds neither the column
\* detected_notDetected nor a per-assay column.
C10_FanOutTargeted ==
    apc = "assembled" =>
        /\ (assay_type = "targeted" /\ DetectedPasses) =>
              /\ Len(assay_name) > 1 => FannedOut
              /\ Len(assay_name) = 1 => KeptPlain
        /\ assay_type = "metabarcoding" => (FanColumns = <<>> /\ PlainColumns = <<>>)

\* the scenario of the specification: assay names x, y and level M
C10_Witness ==
    /\ apc = "assembled"
    /\ assay_type = "targeted"
    /\ DetectedPasses
    /\ assay_name = <<"x", "y">>
    /\ DetectedLevel = "M"
    /\ Present("detected_notDetected_x")
    /\ Present("detected_notDetected_y")
    /\ ~Present("detected_notDetected")

(***************************************************************************)
(* Conversion to the NODE format (FAIRe2NODE).  A worksheet is the list of *)
(* rows that get_all_values returns, a row the list of its cells.  The     *)
(* projectMetadata sheet holds one field per row under a header row; the   *)
(* experimentRunMetadata sheet holds one field per column, its header rows *)
(* ending with the row of the term names.                                  *)
(***************************************************************************)
FieldNames == <<"P", "Q", "R", "S", "T">>
NoaaNames == <<"n1", "n2", "n3", "n4">>
ProfileSections == {"Bioinformatics", "Core"}

\* a cell of the column data_type: NaN, or a string given as its words, its
\* blanks and its pipes
DataTypes ==
    {NaN,
     Specificity(<<"NOAAprojectMetadata">>),
     Specificity(<<"NOAAexperimentRunMetadata">>),
     Specificity(<<"NOAAsampleMetadata">>),
     Specificity(<<"NOAAprojectMetadata", " ", "|", " ", "NOAAexperimentRunMetadata">>)}

\* a row of the sheet "checklist" of the NOAA checklist
ChecklistRow(name, level, section, data_type, options) ==
    [term_name |-> name, requirement_level_code |-> level, section |-> section,
     data_type |-> data_type, description |-> "about " \o name,
     controlled_vocabulary_options |-> options]

ProjectHeaders == <<"requirement_level_code", "section", "term_name", "project_level">>

\* the projectMetadata sheet that create_project_metadata_sheet writes for the
\* fields of df
ProjectSheet(df) ==
    <<ProjectHeaders>> \o
    [k \in 1..Len(df) |->
        <<df[k].requirement_level_code, df[k].section, df[k].term_name, "">>]

\* the experimentRunMetadata sheet that create_experiment_metadata_sheet writes
\* for the fields of df, the term names in the row of index term_name_row
ExperimentSheet(df, term_name_row) ==
    <<<<"# requirement_level_code">> \o [k \in 1..Len(df) |-> df[k].requirement_level_code],
      <<"# section">> \o [k \in 1..Len(df) |-> df[k].section]>> \o
    (IF term_name_row = 3
     THEN <<<<"# description">> \o [k \in 1..Len(df) |-> df[k].description]>>
     ELSE <<>>) \o
    <<<<"samp_name">> \o [k \in 1..Len(df) |-> df[k].term_name]>>

\* the sampleMetadata sheet that create_sample_metadata_sheet writes for the
\* fields of df, the term names in the row of index term_name_row; with
\* prefilled the sheet has the column assay_name and, under the term names, the
\* row of its pre-filled value (get_all_values() returns no trailing empty row)
SampleSheet(df, term_name_row, prefilled) ==
    LET fields == IF prefilled
                  THEN df \o <<ChecklistRow("assay_name", "M", "Core", NaN, "")>>
                  ELSE df
    IN ExperimentSheet(fields, term_name_row) \o
       (IF prefilled
        THEN <<[k \in 1..(Len(fields) + 1) |->
                   IF k = Len(fields) + 1 THEN "x | y" ELSE ""]>>
        ELSE <<>>)

\* data[2] of a sheet of fewer than three rows
IndexError ==
    [type |-> "IndexError", code |-> 0,
     msg |-> <<"r", "a", "n", "g", "e">>, chunk_index |-> NoChunk]

\* list.index(v), 0-based; -1 stands for the ValueError of an absent value
Index(row, v) ==
    IF \E k \in 1..Len(row) : row[k] = v
    THEN (CHOOSE k \in 1..Len(row) :
              row[k] = v /\ \A j \in 1..(k - 1) : row[j] # v) - 1
    ELSE 0 - 1

\* the positions 1..n that satisfy P, ascending
Where(n, P(_)) ==
    LET RECURSIVE W(_)
        W(k) == IF k = 0 THEN <<>>
                ELSE W(k - 1) \o (IF P(k) THEN <<k>> ELSE <<>>)
    IN W(n)

\* input_df[input_df['section'] == 'Bioinformatics']['term_name'].tolist()
get_bioinformatics_fields(df) ==
    {df[k].term_name : k \in {n \in 1..Len(df) : df[n].section = "Bioinformatics"}}

\* the 1-based numbers of the rows below the header whose term name is one of
\* fields: enumerate(data[1:], start=2)
rows_to_delete(d, term_name_col, fields) ==
    LET hit(k) == k >= 2 /\ d[k][term_name_col + 1] \in fields
    IN Where(Len(d), hit)

\* the 1-based numbers of the columns whose cell in data[2] is one of fields
cols_to_delete(d, fields) ==
    LET hit(k) == d[3][k] \in fields
    IN Where(Len(d[3]), hit)

Max(S) == CHOOSE x \in S : \A y \in S : y <= x

RemoveFirst(s, x) ==
    LET k == CHOOSE n \in 1..Len(s) : s[n] = x /\ \A j \in 1..(n - 1) : s[j] # x
    IN SubSeq(s, 1, k - 1) \o SubSeq(s, k + 1, Len(s))

\* variant: sorted(idxs), ascending
sorted_ascending(idxs) == idxs

\* sorted(idxs, reverse=True)
RECURSIVE sorted_reverse(_)
sorted_reverse(idxs) ==
    IF idxs = <<>> THEN <<>>
    ELSE LET m == Max(Range(idxs))
         IN <<m>> \o sorted_reverse(RemoveFirst(idxs, m))

deleteDimension(dimension, startIndex, endIndex) ==
    [request |-> "deleteDimension", dimension |-> dimension,
     startIndex |-> startIndex, endIndex |-> endIndex]

\* strict is "True", "False" or "absent": the key "strict" of the rule
setDataValidation(startRowIndex, startColumnIndex, strict) ==
    [request |-> "setDataValidation", startRowIndex |-> startRowIndex,
     startColumnIndex |-> startColumnIndex, strict |-> strict]

\* a request whose range ends at the row endRowIndex (exclusive) instead of one
\* row under its start
rows_until(req, endRowIndex) == ("endRowIndex" :> endRowIndex) @@ req

\* "endRowIndex" of the range of a request
endRowIndex_of(req) ==
    IF "endRowIndex" \in DOMAIN req THEN req.endRowIndex ELSE req.startRowIndex + 1

\* fields is "bold" or "backgroundColor"
repeatCell(fields, startRowIndex, startColumnIndex) ==
    [request |-> "repeatCell", fields |-> fields, startRowIndex |-> startRowIndex,
     startColumnIndex |-> startColumnIndex]

\* an updateCells request of fields "note"
updateCells(startRowIndex, startColumnIndex) ==
    [request |-> "updateCells", startRowIndex |-> startRowIndex,
     startColumnIndex |-> startColumnIndex]

\* variant: one request per maximal run of adjacent indices
RECURSIVE delete_requests_coalesced(_, _)
delete_requests_coalesced(dimension, idxs) ==
    IF idxs = <<>> THEN <<>>
    ELSE LET run == CHOOSE n \in 1..Len(idxs) :
                        /\ \A j \in 1..n : idxs[j] = idxs[1] - (j - 1)
                        /\ (n < Len(idxs) => idxs[n + 1] # idxs[1] - n)
         IN <<deleteDimension(dimension, idxs[run] - 1, idxs[1])>> \o
            delete_requests_coalesced(dimension, SubSeq(idxs, run + 1, Len(idxs)))

\* one deleteDimension request per index, in the order of idxs
delete_requests(dimension, idxs) ==
    [k \in 1..Len(idxs) |-> deleteDimension(dimension, idxs[k] - 1, idxs[k])]

\* s without its elements of 0-based index lo..hi-1
Cut(s, lo, hi) ==
    LET keep(k) == ~(lo < k /\ k <= hi)
        w == Where(Len(s), keep)
    IN [j \in 1..Len(w) |-> s[w[j]]]

\* what the spreadsheet does with one deleteDimension request
ApplyDelete(grid, req) ==
    IF req.dimension = "ROWS" THEN Cut(grid, req.startIndex, req.endIndex)
    ELSE [k \in 1..Len(grid) |-> Cut(grid[k], req.startIndex, req.endIndex)]

\* batch_update applies the requests of a batch one after another
RECURSIVE ApplyRequests(_, _)
ApplyRequests(grid, reqs) ==
    IF reqs = <<>> THEN grid
    ELSE ApplyRequests(ApplyDelete(grid, Head(reqs)), Tail(reqs))

\* variant: startIndex is the 1-based number of the row, not "row_idx - 1"
project_deletes_shifted(d, fields) ==
    LET idxs == sorted_reverse(rows_to_delete(d, Index(d[1], "term_name"), fields))
    IN [k \in 1..Len(idxs) |-> deleteDimension("ROWS", idxs[k], idxs[k] + 1)]

\* batch_requests of remove_bioinfo_fields_from_project_metadata
project_deletes(d, fields) ==
    delete_requests("ROWS",
        sorted_reverse(rows_to_delete(d, Index(d[1], "term_name"), fields)))

\* batch_requests of remove_bioinfo_fields_from_experiment_metadata
experiment_deletes(d, fields) ==
    delete_requests("COLUMNS", sorted_reverse(cols_to_delete(d, fields)))

\* the validation requests that remove_bioinfo_fields_from_project_metadata
\* sends after the deletion, "to restore the dropdowns": one for every row whose
\* term has controlled_vocabulary_options in the checklist; the rule has no
\* key "strict"
restore_dropdowns(updated_data, checklist_df, term_name_col, project_level_col) ==
    LET hit(k) == /\ k >= 2
                  /\ \E n \in 1..Len(checklist_df) :
                        /\ checklist_df[n].term_name = updated_data[k][term_name_col + 1]
                        /\ checklist_df[n].controlled_vocabulary_options # ""
        w == Where(Len(updated_data), hit)
    IN [j \in 1..Len(w) |-> setDataValidation(w[j] - 1, project_level_col, "absent")]

\* str.split('|') of a string given as its words, blanks and pipes
RECURSIVE split(_, _)
split(str, piece) ==
    IF str = <<>> THEN {piece}
    ELSE IF Head(str) = "|" THEN {piece} \cup split(Tail(str), <<>>)
    ELSE split(Tail(str), Append(piece, Head(str)))

\* str.strip()
RECURSIVE strip(_)
strip(piece) ==
    IF piece = <<>> THEN piece
    ELSE IF Head(piece) = " " THEN strip(Tail(piece))
    ELSE IF piece[Len(piece)] = " " THEN strip(SubSeq(piece, 1, Len(piece) - 1))
    ELSE piece

\* variant: every row that has a data_type
get_noaa_fields_any(df, sheet_type) ==
    LET hit(k) == ~df[k].data_type.na
        w == Where(Len(df), hit)
    IN [j \in 1..Len(w) |-> df[w[j]]]

\* the rows whose data_type is a string and names sheet_type between its pipes
get_noaa_fields(df, sheet_type) ==
    LET hit(k) == /\ ~df[k].data_type.na
                  /\ <<sheet_type>> \in {strip(p) : p \in split(df[k].data_type.str, <<>>)}
        w == Where(Len(df), hit)
    IN [j \in 1..Len(w) |-> df[w[j]]]

color_styles == {"M", "HR", "R", "O"}

resize(rows, cols) == [request |-> "resize", rows |-> rows, cols |-> cols]
update(range) == [request |-> "update", range |-> range]

\* the row that add_noaa_fields_to_project_metadata builds for a field
project_new_row(headers, field) ==
    [k \in 1..Len(headers) |->
        CASE headers[k] = "term_name" -> field.term_name
          [] headers[k] = "requirement_level_code" -> field.requirement_level_code
          [] headers[k] = "section" -> field.section
          [] OTHER -> ""]

\* updated_data of add_noaa_fields_to_project_metadata
project_updated_data(d, noaa_fields) ==
    d \o [k \in 1..Len(noaa_fields) |-> project_new_row(d[1], noaa_fields[k])]

\* the formatting of add_noaa_fields_to_project_metadata: for every row below
\* the header that has a requirement level, its colour and a bold term name
RECURSIVE project_noaa_formatting(_, _)
project_noaa_formatting(updated_data, n) ==
    IF n <= 1 THEN <<>>
    ELSE LET req_level_col == Index(updated_data[1], "requirement_level_code")
             term_name_col == Index(updated_data[1], "term_name")
             req_level == updated_data[n][req_level_col + 1]
         IN project_noaa_formatting(updated_data, n - 1) \o
            (IF req_level = "" THEN <<>>
             ELSE (IF req_level \in color_styles
                   THEN <<repeatCell("backgroundColor", n - 1, req_level_col)>>
                   ELSE <<>>) \o
                  <<repeatCell("bold", n - 1, term_name_col)>>)

\* the rows of noaa_fields of the given term name
TermInfo(noaa_fields, term_name) ==
    LET hit(k) == noaa_fields[k].term_name = term_name
        w == Where(Len(noaa_fields), hit)
    IN [j \in 1..Len(w) |-> noaa_fields[w[j]]]

\* note_requests of add_noaa_fields_to_project_metadata
project_noaa_notes(updated_data, noaa_fields) ==
    LET term_name_col == Index(updated_data[1], "term_name")
        hit(k) == /\ k >= 2
                  /\ LET term_info == TermInfo(noaa_fields, updated_data[k][term_name_col + 1])
                     IN term_info # <<>> /\ term_info[1].description # ""
        w == Where(Len(updated_data), hit)
    IN [j \in 1..Len(w) |-> updateCells(w[j] - 1, term_name_col)]

\* validation_requests of add_noaa_fields_to_project_metadata: "strict": False
project_noaa_validations(updated_data, noaa_fields) ==
    LET term_name_col == Index(updated_data[1], "term_name")
        project_level_col == Index(updated_data[1], "project_level")
        hit(k) == /\ k >= 2
                  /\ LET term_info == TermInfo(noaa_fields, updated_data[k][term_name_col + 1])
                     IN term_info # <<>> /\ term_info[1].controlled_vocabulary_options # ""
        w == Where(Len(updated_data), hit)
    IN [j \in 1..Len(w) |-> setDataValidation(w[j] - 1, project_level_col, "False")]

HashCells == {"# requirement_level_code", "# section", "# description"}

\* the last 0-based index of a row that satisfies P, -1 for None
LastRow(d, P(_)) ==
    LET w == Where(Len(d), P)
    IN IF w = <<>> THEN 0 - 1 ELSE w[Len(w)] - 1

\* "Find key rows" of add_noaa_fields_to_experiment_metadata
req_level_row_of(d) ==
    LET P(k) == "# requirement_level_code" \in Range(d[k]) IN LastRow(d, P)
section_row_of(d) ==
    LET P(k) == "# section" \in Range(d[k]) IN LastRow(d, P)
description_row_of(d) ==
    LET P(k) == "# description" \in Range(d[k]) IN LastRow(d, P)
\* the last row that has a cell which is not empty and does not start with '#';
\* "Default to row 2 if not found"
term_name_row_of(d) ==
    LET P(k) == \E c \in Range(d[k]) : c # "" /\ c \notin HashCells
        r == LastRow(d, P)
    IN IF r = 0 - 1 THEN 2 ELSE r

\* the cells of the column that add_noaa_fields_to_experiment_metadata appends
\* for a field, by 0-based row: the cell written last stands
experiment_new_cell(d, field, r) ==
    IF r = description_row_of(d) /\ field.description # "" THEN field.description
    ELSE IF r = section_row_of(d) THEN field.section
    ELSE IF r = req_level_row_of(d) THEN field.requirement_level_code
    ELSE IF r = term_name_row_of(d) THEN field.term_name
    ELSE ""

\* updated_data of add_noaa_fields_to_experiment_metadata
experiment_updated_data(d, noaa_fields) ==
    [k \in 1..Len(d) |->
        d[k] \o [j \in 1..Len(noaa_fields) |-> experiment_new_cell(d, noaa_fields[j], k - 1)]]

\* the formatting of add_noaa_fields_to_experiment_metadata: the colours of the
\* requirement levels of the new columns, then their bold term names
experiment_noaa_formatting(d, noaa_fields) ==
    LET first == Len(d[1])
        coloured(j) == /\ req_level_row_of(d) # 0 - 1
                       /\ noaa_fields[j].requirement_level_code \in color_styles
        w == Where(Len(noaa_fields), coloured)
    IN [j \in 1..Len(w) |->
           repeatCell("backgroundColor", req_level_row_of(d), first + w[j] - 1)] \o
       [j \in 1..Len(noaa_fields) |->
           repeatCell("bold", term_name_row_of(d), first + j - 1)]

\* note_requests of add_noaa_fields_to_experiment_metadata
experiment_noaa_notes(d, noaa_fields) ==
    LET first == Len(d[1])
        hit(j) == TermInfo(noaa_fields, noaa_fields[j].term_name)[1].description # ""
        w == Where(Len(noaa_fields), hit)
    IN [j \in 1..Len(w) |-> updateCells(term_name_row_of(d), first + w[j] - 1)]

\* variant: a dropdown for every appended field
experiment_noaa_validations_all(d, noaa_fields) ==
    [j \in 1..Len(noaa_fields) |->
        rows_until(setDataValidation(term_name_row_of(d) + 1, Len(d[1]) + j - 1, "False"),
                   Max({term_name_row_of(d) + 20, Len(d)}))]

\* validation_requests of add_noaa_fields_to_experiment_metadata: "strict": False
experiment_noaa_validations(d, noaa_fields) ==
    LET first == Len(d[1])
        hit(j) == TermInfo(noaa_fields, noaa_fields[j].term_name)[1]
                      .controlled_vocabulary_options # ""
        w == Where(Len(noaa_fields), hit)
    IN [j \in 1..Len(w) |->
           rows_until(setDataValidation(term_name_row_of(d) + 1, first + w[j] - 1, "False"),
                      Max({term_name_row_of(d) + 20, Len(d)}))]

\* the batches of a handler that are not empty ("if batch_requests:")
RECURSIVE NonEmpty(_)
NonEmpty(batches) ==
    IF batches = <<>> THEN <<>>
    ELSE (IF Head(batches) = <<>> THEN <<>> ELSE <<Head(batches)>>) \o
         NonEmpty(Tail(batches))

\* the remote calls that have returned when the call number fail_at raises
\* (all of them when fail_at is 0)
Done(remote_calls, fail_at) ==
    IF fail_at = 0 THEN remote_calls ELSE SubSeq(remote_calls, 1, fail_at - 1)

bioinfo_fields == get_bioinformatics_fields(noaa_checklist)

ProfileInit ==
    /\ \E n \in 0..MaxFields, m \in 0..MaxNoaaFields, term_name_row \in {2, 3} :
          \E sections \in [1..n -> ProfileSections], types \in [1..m -> DataTypes] :
             LET faire == [k \in 1..n |->
                              ChecklistRow(FieldNames[k], "M", sections[k], NaN,
                                           IF k = 1 THEN "a | b" ELSE "")]
                 noaa == [k \in 1..m |->
                              ChecklistRow(NoaaNames[k], "R", "NOAA", types[k],
                                           IF k = 1 THEN "c | d" ELSE "")]
             IN /\ noaa_checklist = faire \o noaa
                /\ projectMetadata = ProjectSheet(faire)
                /\ experimentRunMetadata = ExperimentSheet(faire, term_name_row)
                /\ \E prefilled \in BOOLEAN :
                      sampleMetadata = SampleSheet(faire, term_name_row, prefilled)
    /\ sample_data = <<>>
    /\ config = NoConfig
    /\ analysis_worksheets = <<>>
    /\ analysis_sheets = <<>>
    /\ data = <<>>
    /\ converted = <<>>
    /\ runs = 1
    /\ fpc = "part1_project"
    /\ EngineIdle
    /\ BuildIdle
    /\ RemoteIdle
    /\ AsmIdle
    /\ SheetsIdle

\* what a handler of the conversion leaves behind: the batches that were
\* applied, and the exception of the call that raised, wrapped
Handled(remote_calls, fail_at, next) ==
    /\ applied' = applied \o Done(remote_calls, fail_at)
    /\ raised' = IF fail_at = 0 THEN raised ELSE Wrapped(PermissionDenied)
    /\ fpc' = IF fail_at = 0 THEN next ELSE "failed"

\* remove_bioinfo_fields_from_project_metadata(project_metadata, bioinfo_fields)
remove_bioinfo_fields_from_project_metadata(fail_at) ==
    /\ fpc = "part1_project"
    /\ data' = projectMetadata
    /\ LET headers == projectMetadata[1]
           term_name_col == Index(headers, "term_name")
           project_level_col == Index(headers, "project_level")
           deletes == project_deletes(projectMetadata, bioinfo_fields)
           updated_data == ApplyRequests(projectMetadata, deletes)
           validation_requests == restore_dropdowns(updated_data, noaa_checklist,
                                                    term_name_col, project_level_col)
           remote_calls == NonEmpty(<<deletes, validation_requests>>)
       IN IF projectMetadata = <<>> \/ project_level_col = 0 - 1
          THEN /\ fail_at = 0
               /\ fpc' = "part1_experiment"
               /\ batch_requests' = <<>>
               /\ UNCHANGED <<projectMetadata, applied, raised>>
          ELSE /\ fail_at \in 0..Len(remote_calls)
               /\ batch_requests' = deletes
               /\ projectMetadata' =
                     IF deletes = <<>> \/ fail_at = 1 THEN projectMetadata
                     ELSE updated_data
               /\ Handled(remote_calls, fail_at, "part1_experiment")
    /\ UNCHANGED <<noaa_checklist, experimentRunMetadata, converted, runs, notProfile,
                   profileSampleVars>>

\* remove_bioinfo_fields_from_experiment_metadata(experiment_metadata,
\* bioinfo_fields); a sheet of fewer than three rows has no data[2]
remove_bioinfo_fields_from_experiment_metadata(fail_at) ==
    /\ fpc = "part1_experiment"
    /\ data' = experimentRunMetadata
    /\ IF experimentRunMetadata = <<>>
       THEN /\ fail_at = 0
            /\ fpc' = "part2_project"
            /\ batch_requests' = <<>>
            /\ UNCHANGED <<experimentRunMetadata, applied, raised>>
       ELSE IF Len(experimentRunMetadata) < 3
       THEN /\ fail_at = 1
            /\ raised' = Wrapped(IndexError)
            /\ fpc' = "failed"
            /\ batch_requests' = <<>>
            /\ UNCHANGED <<experimentRunMetadata, applied>>
       ELSE LET idxs == cols_to_delete(experimentRunMetadata, bioinfo_fields)
                deletes == experiment_deletes(experimentRunMetadata, bioinfo_fields)
            IN IF idxs = <<>>
               THEN /\ fail_at = 0
                    /\ fpc' = "part2_project"
                    /\ batch_requests' = <<>>
                    /\ UNCHANGED <<experimentRunMetadata, applied, raised>>
               ELSE /\ fail_at \in 0..1
                    /\ batch_requests' = deletes
                    /\ experimentRunMetadata' =
                          IF fail_at = 1 THEN experimentRunMetadata
                          ELSE ApplyRequests(experimentRunMetadata, deletes)
                    /\ Handled(<<deletes>>, fail_at, "part2_project")
    /\ UNCHANGED <<noaa_checklist, projectMetadata, converted, runs, notProfile,
                   profileSampleVars>>

\* add_noaa_fields_to_project_metadata(project_metadata, noaa_project_fields)
add_noaa_fields_to_project_metadata(fail_at) ==
    /\ fpc = "part2_project"
    /\ data' = projectMetadata
    /\ LET noaa_fields == get_noaa_fields(noaa_checklist, "NOAAprojectMetadata")
           updated_data == project_updated_data(projectMetadata, noaa_fields)
           formatting == project_noaa_formatting(updated_data, Len(updated_data))
           remote_calls ==
               <<<<resize(Len(updated_data) + 10, Len(updated_data[1]) + 5)>>,
                 <<update("A1")>>>> \o
               NonEmpty(<<formatting,
                          project_noaa_notes(updated_data, noaa_fields),
                          project_noaa_validations(updated_data, noaa_fields)>>)
       IN IF projectMetadata = <<>>
          THEN /\ fail_at = 0
               /\ fpc' = "part2_sample"
               /\ batch_requests' = <<>>
               /\ UNCHANGED <<projectMetadata, applied, raised>>
          ELSE /\ fail_at \in 0..Len(remote_calls)
               /\ batch_requests' = formatting
               /\ projectMetadata' =
                     IF fail_at \in {1, 2} THEN projectMetadata ELSE updated_data
               /\ Handled(remote_calls, fail_at, "part2_sample")
    /\ UNCHANGED <<noaa_checklist, experimentRunMetadata, converted, runs, notProfile,
                   profileSampleVars>>

\* "Find key rows" of add_noaa_fields_to_sample_metadata: the last row that has
\* a cell which is not empty and does not start with '#', -1 for None
sample_last_named_row(d) ==
    LET P(k) == \E c \in Range(d[k]) : c # "" /\ c \notin HashCells
    IN LastRow(d, P)

\* "term_name_row = term_name_row - 1  # Move term names up by one row"
sample_noaa_term_name_row(d) == sample_last_named_row(d) - 1

\* sheet_df.iloc[n]: a negative position counts from the end
iloc(d, n) == IF n < 0 THEN Len(d) + n ELSE n

\* the cells of the column that add_noaa_fields_to_sample_metadata appends for
\* a field, by 0-based row: the cell written last stands
sample_new_cell(d, field, r) ==
    IF r = description_row_of(d) /\ field.description # "" THEN field.description
    ELSE IF r = section_row_of(d) THEN field.section
    ELSE IF r = req_level_row_of(d) THEN field.requirement_level_code
    ELSE IF r = iloc(d, sample_noaa_term_name_row(d)) THEN field.term_name
    ELSE ""

\* updated_data of add_noaa_fields_to_sample_metadata
sample_updated_data(d, noaa_fields) ==
    [k \in 1..Len(d) |->
        d[k] \o [j \in 1..Len(noaa_fields) |-> sample_new_cell(d, noaa_fields[j], k - 1)]]

\* batch_requests of add_noaa_fields_to_sample_metadata: for each new column
\* the colour of its requirement level, read back from the sheet, then its bold
\* term name
sample_noaa_formatting(d, noaa_fields) ==
    LET first == Len(d[1])
        updated_data == sample_updated_data(d, noaa_fields)
    IN Flatten([j \in 1..Len(noaa_fields) |->
           (IF updated_data[req_level_row_of(d) + 1][first + j] \in color_styles
            THEN <<repeatCell("backgroundColor", req_level_row_of(d), first + j - 1)>>
            ELSE <<>>) \o
           <<repeatCell("bold", sample_noaa_term_name_row(d), first + j - 1)>>])

\* term_rows of a new column: the rows of noaa_fields named as the cell that
\* the sheet now has in the row term_name_row of the column
sample_term_rows(d, noaa_fields, j) ==
    TermInfo(noaa_fields,
             sample_updated_data(d, noaa_fields)
                 [iloc(d, sample_noaa_term_name_row(d)) + 1][Len(d[1]) + j])

\* note_requests of add_noaa_fields_to_sample_metadata
sample_noaa_notes(d, noaa_fields) ==
    LET hit(j) == LET term_rows == sample_term_rows(d, noaa_fields, j)
                  IN term_rows # <<>> /\ term_rows[1].description # ""
        w == Where(Len(noaa_fields), hit)
    IN [j \in 1..Len(w) |->
           updateCells(sample_noaa_term_name_row(d), Len(d[1]) + w[j] - 1)]

\* validation_requests of add_noaa_fields_to_sample_metadata: "strict": False
sample_noaa_validations(d, noaa_fields) ==
    LET hit(j) == LET term_rows == sample_term_rows(d, noaa_fields, j)
                  IN /\ term_rows # <<>>
                     /\ term_rows[1].controlled_vocabulary_options # ""
        w == Where(Len(noaa_fields), hit)
    IN [j \in 1..Len(w) |->
           rows_until(setDataValidation(sample_noaa_term_name_row(d) + 1,
                                        Len(d[1]) + w[j] - 1, "False"),
                      Max({sample_noaa_term_name_row(d) + 20, Len(d)}))]

\* "Could not find term name, requirement level, or section row in
\* sampleMetadata", wrapped by the handler of the function
KeyRowsNotFound ==
    [type |-> "Exception", code |-> 0,
     msg |-> <<"k", "e", "y">>, chunk_index |-> NoChunk]

\* add_noaa_fields_to_sample_metadata(sample_metadata, noaa_sample_fields)
add_noaa_fields_to_sample_metadata(fail_at) ==
    /\ fpc = "part2_sample"
    /\ sample_data' = sampleMetadata
    /\ LET d == sampleMetadata
           noaa_fields == get_noaa_fields(noaa_checklist, "NOAAsampleMetadata")
           updated_data == sample_updated_data(d, noaa_fields)
           formatting == sample_noaa_formatting(d, noaa_fields)
           remote_calls ==
               <<<<resize(Len(updated_data) + 10, Len(updated_data[1]) + 5)>>,
                 <<update("A1")>>>> \o
               NonEmpty(<<formatting,
                          sample_noaa_notes(d, noaa_fields),
                          sample_noaa_validations(d, noaa_fields)>>)
       IN IF d = <<>>
          THEN /\ fail_at = 0
               /\ fpc' = "part2_experiment"
               /\ batch_requests' = <<>>
               /\ UNCHANGED <<sampleMetadata, applied, raised>>
          ELSE IF 0 - 1 \in {sample_last_named_row(d), req_level_row_of(d),
                             section_row_of(d)}
          THEN /\ fail_at = 0
               /\ fpc' = "failed"
               /\ raised' = Wrapped(KeyRowsNotFound)
               /\ batch_requests' = <<>>
               /\ UNCHANGED <<sampleMetadata, applied>>
          ELSE /\ fail_at \in 0..Len(remote_calls)
               /\ batch_requests' = formatting
               /\ sampleMetadata' = IF fail_at \in {1, 2} THEN d ELSE updated_data
               /\ Handled(remote_calls, fail_at, "part2_experiment")
    /\ UNCHANGED <<noaa_checklist, projectMetadata, experimentRunMetadata, data,
                   converted, runs, notProfile>>

\* add_noaa_fields_to_experiment_metadata(experiment_metadata,
\* noaa_experiment_fields); the conversion of the two sheets ends with it
add_noaa_fields_to_experiment_metadata(fail_at) ==
    /\ fpc = "part2_experiment"
    /\ data' = experimentRunMetadata
    /\ LET d == experimentRunMetadata
           noaa_fields == get_noaa_fields(noaa_checklist, "NOAAexperimentRunMetadata")
           updated_data == experiment_updated_data(d, noaa_fields)
           formatting == experiment_noaa_formatting(d, noaa_fields)
           remote_calls ==
               <<<<resize(Len(updated_data) + 10, Len(updated_data[1]) + 5)>>,
                 <<update("A1")>>>> \o
               NonEmpty(<<formatting,
                          experiment_noaa_notes(d, noaa_fields),
                          experiment_noaa_validations(d, noaa_fields)>>)
       IN IF d = <<>>
          THEN /\ fail_at = 0
               /\ fpc' = "converted"
               /\ converted' = IF runs = 1 THEN <<projectMetadata, d>> ELSE converted
               /\ batch_requests' = <<>>
               /\ UNCHANGED <<experimentRunMetadata, applied, raised>>
          ELSE /\ fail_at \in 0..Len(remote_calls)
               /\ batch_requests' = formatting
               /\ experimentRunMetadata' = IF fail_at \in {1, 2} THEN d ELSE updated_data
               /\ converted' = IF runs = 1 /\ fail_at = 0
                               THEN <<projectMetadata, updated_data>> ELSE converted
               /\ Handled(remote_calls, fail_at, "converted")
    /\ UNCHANGED <<noaa_checklist, projectMetadata, runs, notProfile,
                   profileSampleVars>>

\* the script is run once more on the converted spreadsheet
FAIRe2NODE ==
    /\ fpc = "converted"
    /\ runs < MaxRuns
    /\ runs' = runs + 1
    /\ fpc' = "part1_project"
    /\ UNCHANGED <<noaa_checklist, projectMetadata, experimentRunMetadata, data,
                   converted, batch_requests, applied, raised, notProfile,
                   profileSampleVars>>

ProfileNext ==
    \/ \E fail_at \in 0..2 : remove_bioinfo_fields_from_project_metadata(fail_at)
    \/ \E fail_at \in 0..1 : remove_bioinfo_fields_from_experiment_metadata(fail_at)
    \/ \E fail_at \in 0..5 : add_noaa_fields_to_project_metadata(fail_at)
    \/ \E fail_at \in 0..5 : add_noaa_fields_to_sample_metadata(fail_at)
    \/ \E fail_at \in 0..5 : add_noaa_fields_to_experiment_metadata(fail_at)
    \/ FAIRe2NODE

SpecProfile == ProfileInit /\ [][ProfileNext]_vars

(***************************************************************************)
(* Properties of the conversion.                                           *)
(***************************************************************************)
\* the rows of a field-per-row sheet whose section is not Bioinformatics, under
\* its header row
ProjectKept(d) ==
    LET section_col == Index(d[1], "section")
        keep(k) == k = 1 \/ d[k][section_col + 1] # "Bioinformatics"
        w == Where(Len(d), keep)
    IN [j \in 1..Len(w) |-> d[w[j]]]

\* the columns of a field-per-column sheet whose cell in the row "# section"
\* is not Bioinformatics
ExperimentKept(d) ==
    LET section_row == CHOOSE r \in 1..Len(d) : d[r][1] = "# section"
        keep(k) == d[section_row][k] # "Bioinformatics"
        w == Where(Len(d[1]), keep)
    IN [r \in 1..Len(d) |-> [j \in 1..Len(w) |-> d[r][w[j]]]]

\* C11: after the removal step a field is in the grid iff it was there before
\* and its section is not the removed section (Bioinformatics); the retained
\* fields keep their order and their cells, and the header row (the structural
\* column) stays; for projectMetadata and for experimentRunMetadata, wherever
\* its row of term names lies.
C11_ProfileRemoval ==
    /\ fpc = "part1_experiment" => projectMetadata = ProjectKept(data)
    /\ fpc = "part2_project" => experimentRunMetadata = ExperimentKept(data)

\* C12 as stated: converting a converted spreadsheet once more leaves the two
\* grids as the first conversion left them.
C12_ConversionIdempotent ==
    (fpc = "converted" /\ runs = 2) =>
        <<projectMetadata, experimentRunMetadata>> = converted

\* C12 as amended: the removal step, applied once more to the grid it has just
\* been applied to, deletes nothing and leaves the grid as it is.
C12_RemovalIdempotent ==
    /\ fpc = "part1_experiment" =>
          ApplyRequests(projectMetadata,
                        project_deletes(projectMetadata, bioinfo_fields)) = projectMetadata
    /\ fpc = "part2_project" =>
          ApplyRequests(experimentRunMetadata,
                        experiment_deletes(experimentRunMetadata, bioinfo_fields))
              = experimentRunMetadata

\* a removal that deleted two rows of projectMetadata
C12_Witness ==
    /\ fpc = "part1_experiment"
    /\ runs = 1
    /\ Len(data) = Len(projectMetadata) + 2
    /\ Len(projectMetadata) = 2

\* the elements of s whose 1-based position is not in S
Without(s, S) ==
    LET keep(k) == k \notin S
        w == Where(Len(s), keep)
    IN [j \in 1..Len(w) |-> s[w[j]]]

DeletionsOf(batch) ==
    LET isDelete(k) == batch[k].request = "deleteDimension"
        w == Where(Len(batch), isDelete)
    IN [j \in 1..Len(w) |-> batch[w[j]]]

\* C13: in every batch the start indices of the deleteDimension requests are
\* strictly decreasing, and the batch, applied request by request, deletes
\* exactly the rows (columns) that were identified on the grid as read.
C13_DescendingDeletes ==
    /\ \A n \in 1..Len(applied) :
          LET deletes == DeletionsOf(applied[n])
          IN \A j, k \in 1..Len(deletes) :
                j < k => deletes[j].startIndex > deletes[k].startIndex
    /\ fpc = "part1_experiment" =>
          projectMetadata =
              Without(data, Range(rows_to_delete(data, Index(data[1], "term_name"),
                                                 bioinfo_fields)))
    /\ fpc = "part2_project" =>
          experimentRunMetadata =
              [r \in 1..Len(data) |->
                  Without(data[r], Range(cols_to_delete(data, bioinfo_fields)))]

\* a batch of two deletions, of rows that are not adjacent, has been applied
C13_Witness ==
    /\ fpc = "part1_experiment"
    /\ Len(batch_requests) = 2
    /\ batch_requests[1].startIndex = 3
    /\ batch_requests[2].startIndex = 1
    /\ applied # <<>>
    /\ applied[1] = batch_requests
    /\ Len(projectMetadata) = 2

\* the maximal runs lo..hi of adjacent numbers of S, as pairs
MaximalRuns(S) ==
    {<<lo, hi>> \in S \X S :
        /\ \A x \in lo..hi : x \in S
        /\ lo - 1 \notin S
        /\ hi + 1 \notin S}

\* the 1-based numbers of the rows (columns) that the removal function under
\* way matched on the grid it read
Matched ==
    IF fpc = "part1_experiment"
    THEN Range(rows_to_delete(data, Index(data[1], "term_name"), bioinfo_fields))
    ELSE Range(cols_to_delete(data, bioinfo_fields))

RemovalReturned == fpc \in {"part1_experiment", "part2_project"}

\* C14 as stated: the removal step emits one delete operation per maximal run
\* of adjacent matched indices, in descending order.
C14_CoalescedDeletion ==
    RemovalReturned =>
        /\ {<<batch_requests[k].startIndex + 1, batch_requests[k].endIndex>> :
               k \in 1..Len(batch_requests)} = MaximalRuns(Matched)
        /\ Len(batch_requests) = Cardinality(MaximalRuns(Matched))

\* C14 as amended: the removal step emits one deleteDimension request per
\* matched index, each of one row (column), in descending order, and sends
\* them all in one batch.
C14_OneDeletionPerMatch ==
    RemovalReturned =>
        /\ Len(batch_requests) = Cardinality(Matched)
        /\ \A k \in 1..Len(batch_requests) :
              /\ batch_requests[k].request = "deleteDimension"
              /\ batch_requests[k].endIndex = batch_requests[k].startIndex + 1
              /\ batch_requests[k].endIndex \in Matched
        /\ \A j, k \in 1..Len(batch_requests) :
              j < k => batch_requests[j].startIndex > batch_requests[k].startIndex
        /\ batch_requests # <<>> => \E n \in 1..Len(applied) : applied[n] = batch_requests

\* two adjacent rows were matched, and two requests were sent
C14_Witness ==
    /\ fpc = "part1_experiment"
    /\ Matched = {2, 3}
    /\ Len(batch_requests) = 2
    /\ Len(projectMetadata) = Len(data) - 2

\* a checklist row is tagged with a profile identifier when the identifier is
\* one of the words of its data_type
Tagged(r, sheet_type) ==
    /\ ~r.data_type.na
    /\ \E k \in 1..Len(r.data_type.str) : r.data_type.str[k] = sheet_type

TaggedRows(sheet_type) ==
    LET hit(k) == Tagged(noaa_checklist[k], sheet_type)
        w == Where(Len(noaa_checklist), hit)
    IN [j \in 1..Len(w) |-> noaa_checklist[w[j]]]

\* the cell of a header in the row appended for a field
AppendedCell(header, field) ==
    IF header = "term_name" THEN field.term_name
    ELSE IF header = "requirement_level_code" THEN field.requirement_level_code
    ELSE IF header = "section" THEN field.section
    ELSE ""

\* C15: the append step adds, for every checklist field tagged with the
\* identifier of the sheet and for no other, one row (column) after the last
\* row (column), in checklist order, with the field's name, requirement level
\* and section; the cells that were there keep their values and positions.
C15_ProfileAppend ==
    /\ fpc = "part2_experiment" =>
          LET fields == TaggedRows("NOAAprojectMetadata")
          IN /\ Len(projectMetadata) = Len(data) + Len(fields)
             /\ SubSeq(projectMetadata, 1, Len(data)) = data
             /\ \A k \in 1..Len(fields) :
                   projectMetadata[Len(data) + k] =
                       [c \in 1..Len(data[1]) |-> AppendedCell(data[1][c], fields[k])]
    /\ fpc = "converted" =>
          LET fields == TaggedRows("NOAAexperimentRunMetadata")
              new == experimentRunMetadata
          IN /\ Len(new) = Len(data)
             /\ \A r \in 1..Len(data) :
                   /\ Len(new[r]) = Len(data[r]) + Len(fields)
                   /\ SubSeq(new[r], 1, Len(data[r])) = data[r]
             /\ \A k \in 1..Len(fields) :
                   LET c == Len(data[1]) + k
                   IN \A r \in 1..Len(data) :
                         /\ r = Len(data) => new[r][c] = fields[k].term_name
                         /\ data[r][1] = "# requirement_level_code" =>
                               new[r][c] = fields[k].requirement_level_code
                         /\ data[r][1] = "# section" => new[r][c] = fields[k].section

\* the first conversion of a spreadsheet whose checklist tags n1 for the two
\* sheets and n2 for sampleMetadata: n1 alone has been appended to both
C15_Witness ==
    /\ fpc = "converted"
    /\ runs = 1
    /\ Len(noaa_checklist) >= 2
    /\ Tagged(noaa_checklist[Len(noaa_checklist) - 1], "NOAAprojectMetadata")
    /\ Tagged(noaa_checklist[Len(noaa_checklist) - 1], "NOAAexperimentRunMetadata")
    /\ noaa_checklist[Len(noaa_checklist)].data_type.str = <<"NOAAsampleMetadata">>
    /\ projectMetadata[Len(projectMetadata)][3] = "n1"
    /\ experimentRunMetadata[Len(data)][Len(data[1]) + 1] = "n1"
    /\ Len(experimentRunMetadata[1]) = Len(data[1]) + 1

(***************************************************************************)
(* The grid builders after assembly: the values written, then the          *)
(* formatting requests collected (create_sample_metadata_sheet,            *)
(* create_project_metadata_sheet, create_experiment_metadata_sheet).  The  *)
(* calls worksheet.resize and worksheet.update are seen in applied; the    *)
(* requests collected in batch_requests are sent by the loop of the        *)
(* builder, from the position "start".                                     *)
(***************************************************************************)
\* the terms of the sheet "Drop-down values" that have options
vocab_df == {"A", "P", "detected_notDetected"}

\* variant: only the first name is written
join_first(sep, names) == IF names = <<>> THEN "" ELSE Head(names)

\* sep.join(names)
join(sep, names) ==
    LET RECURSIVE J(_)
        J(ns) == IF ns = <<>> THEN ""
                 ELSE IF Len(ns) = 1 THEN Head(ns)
                 ELSE Head(ns) \o sep \o J(Tail(ns))
    IN J(names)

\* the rows of the sampleMetadata sheet of the template, by index
sample_req_level_row == 0
sample_section_row == 1
sample_term_name_row == 2

\* The checklists of the sample grids that are formatted: samp_name, A,
\* optionally assay_name and detected_notDetected, and C.
SampleSchemas ==
    {<<samp_name, Field("A", "Sample collection", la, Specificity(ALL))>> \o asy \o
       det \o <<Field("C", "Environment", "HR", NaN)>> :
         la \in {"M", "O"},
         asy \in {<<>>, <<Field("assay_name", "Sample collection", "M",
                                Specificity(ALL))>>},
         det \in {<<>>, <<Field("detected_notDetected", "Targeted assay detection",
                                "M", Specificity(ALL))>>}}

SampleInit ==
    /\ \E schema \in SampleSchemas :
          /\ template = [k \in 1..Len(schema) |-> schema[k].col]
          /\ input_df = [k \in 1..Len(schema) |-> schema[k].row]
    /\ req_lev \in ReqLevChoices
    /\ sample_type \in {<<>>, <<Water>>}
    /\ assay_type \in {"targeted", "metabarcoding"}
    /\ assay_name \in SeqsUpTo(AssayNames, MaxAssays)
    /\ sampleMetadata_user \in {UserFieldList(n) : n \in 0..MaxUserFields}
    /\ sheet_df = template
    /\ apc = "read"
    /\ EngineIdle
    /\ BuildIdle
    /\ RemoteIdle
    /\ ProfileIdle
    /\ SheetsIdle

\* "Pre-fill assay_name if it exists": the row below the term names is emptied
\* and the cell of the column assay_name is filled in
PrefillAssayName ==
    /\ apc = "assembled"
    /\ new_row' = [k \in 1..Len(sheet_df) |->
                      IF sheet_df[k].name = "assay_name"
                      THEN join(" | ", assay_name) ELSE ""]
    /\ apc' = "prefilled"
    /\ UNCHANGED <<sheet_df, projectVars, experimentVars, mpc, sendVars, applied,
                   raised, configVars, notSheets>>

\* "Format header row (term_name row)"
sample_bold == <<repeatCell("bold", sample_term_name_row, 0)>>

\* "Format requirement level cells with colors"
sample_backgrounds(df, levels) ==
    LET coloured(k) == df[k].level \in color_styles /\ df[k].level \in levels
        w == Where(Len(df), coloured)
    IN [j \in 1..Len(w) |->
           repeatCell("backgroundColor", sample_req_level_row, w[j] - 1)]

\* "Add dropdowns - only for a few rows to reduce API calls": the rule has no
\* key "strict"
sample_dropdowns(df) ==
    LET listed(k) == df[k].name \in vocab_df
        w == Where(Len(df), listed)
    IN [j \in 1..Len(w) |->
           rows_until(setDataValidation(sample_term_name_row + 1, w[j] - 1, "absent"),
                      sample_term_name_row + 10)]

\* 'detected_notDetected' if term.startswith('detected_notDetected_') else term
term_for_lookup(term) ==
    IF \E a \in AssayNames : term = "detected_notDetected_" \o a
    THEN "detected_notDetected" ELSE term

\* "Add comments": none for a user-defined field, none for a term the checklist
\* does not have
sample_notes(df, checklist, user) ==
    LET described(k) ==
            /\ df[k].name \notin Range(user)
            /\ \E n \in 1..Len(checklist) :
                  checklist[n].term_name = term_for_lookup(df[k].name)
        w == Where(Len(df), described)
    IN [j \in 1..Len(w) |-> updateCells(sample_term_name_row, w[j] - 1)]

\* variant: the comments are collected before the dropdowns
collect_notes_first(bold, backgrounds, dropdowns, notes) ==
    bold \o backgrounds \o notes \o dropdowns

\* batch_requests in the order in which the builder appends to it
collect(bold, backgrounds, dropdowns, notes) ==
    bold \o backgrounds \o dropdowns \o notes

\* worksheet.resize, worksheet.update("A1", data), then "Prepare all formatting
\* in a single batch request"
FormatSample(fail_at) ==
    /\ apc = "prefilled"
    /\ applied' = applied \o
          Done(<<<<resize(sample_term_name_row + 10, Len(sheet_df) + 5)>>,
                 <<update("A1")>>>>, fail_at)
    /\ IF fail_at = 0
       THEN /\ batch_requests' =
                  collect(sample_bold, sample_backgrounds(sheet_df, req_lev),
                          sample_dropdowns(sheet_df),
                          sample_notes(sheet_df, input_df, sampleMetadata_user))
            /\ builder' = "sampleMetadata"
            /\ bpc' = "start"
            /\ apc' = "collected"
            /\ UNCHANGED raised
       ELSE /\ raised' = PermissionDenied
            /\ apc' = "raised"
            /\ UNCHANGED sendVars
    /\ UNCHANGED <<sheet_df, new_row, projectVars, experimentVars, mpc, configVars,
                   notSheets>>

(***************************************************************************)
(* The projectMetadata grid (create_project_metadata_sheet).  The data     *)
(* frame is its list of column names and its list of rows; a row is its    *)
(* index label and its cells by column name.                               *)
(***************************************************************************)
\* the argument project_id of FAIReSheets
project_id == "gomecc4"

ProjectRow(index, level, section, name) ==
    [index |-> index,
     cells |-> [c \in Range(ProjectHeaders) |->
                   CASE c = "requirement_level_code" -> level
                     [] c = "section" -> section
                     [] c = "term_name" -> name
                     [] OTHER -> ""]]

\* the sheets "projectMetadata" of the full template of the model: project_id,
\* assay_name, P of the section Bioinformatics, Q of the section "Targeted
\* assay detection"
ProjectTemplates ==
    {[columns |-> ProjectHeaders,
      rows |-> <<ProjectRow(0, "M", "Project", "project_id"),
                 ProjectRow(1, la, "Project", "assay_name"),
                 ProjectRow(2, lp, "Bioinformatics", "P"),
                 ProjectRow(3, "O", "Targeted assay detection", "Q")>>] :
        la \in {"M", "R"}, lp \in {"HR", "O"}}

ProjectInit ==
    /\ project_meta_df \in ProjectTemplates
    /\ input_df = [k \in 1..Len(project_meta_df.rows) |->
                      Row(project_meta_df.rows[k].cells["term_name"],
                          project_meta_df.rows[k].cells["requirement_level_code"], NaN)]
    /\ req_lev \in ReqLevChoices
    /\ assay_type \in {"targeted", "metabarcoding"}
    /\ assay_name \in SeqsUpTo(AssayNames, MaxAssays)
    /\ projectMetadata_user \in {UserFieldList(n) : n \in 0..MaxUserFields}
    /\ ppc = "read"
    /\ template = <<>>
    /\ sample_type = <<>>
    /\ sampleMetadata_user = <<>>
    /\ sheet_df = <<>>
    /\ apc = "idle"
    /\ new_row = <<>>
    /\ experiment_df = <<>>
    /\ xpc = "idle"
    /\ mpc = "idle"
    /\ checklist_file = "ok"
    /\ template_file = "ok"
    /\ existing_sheets = <<>>
    /\ experimentRunMetadata_user = <<>>
    /\ EngineIdle
    /\ BuildIdle
    /\ RemoteIdle
    /\ ProfileIdle

\* df[df[column] != value]: the index labels of the rows stay
DropRows(df, column, values) ==
    LET keep(k) == df.rows[k].cells[column] \notin values
        w == Where(Len(df.rows), keep)
    IN [df EXCEPT !.rows = [j \in 1..Len(w) |-> df.rows[w[j]]]]

section2rm(type) ==
    IF type = "metabarcoding" THEN {"Targeted assay detection"}
    ELSE IF type = "targeted"
    THEN {"Library preparation sequencing", "Bioinformatics", "OTU/ASV"}
    ELSE {}

\* "Filter rows based on assay_type", "Filter rows based on requirement levels"
FilterProjectRows ==
    /\ ppc = "read"
    /\ project_meta_df' =
          DropRows(DropRows(project_meta_df, "section", section2rm(assay_type)),
                   "requirement_level_code", Levels \ req_lev)
    /\ ppc' = "filtered"
    /\ UNCHANGED <<sampleVars, experimentVars, mpc, sendVars, applied, raised,
                   configVars, notSheets>>

\* variant: the user-defined rows take the requirement level of the first row
user_row_M(columns, field) ==
    [c \in Range(columns) |->
        CASE c = "term_name" -> field
          [] c = "requirement_level_code" -> "M"
          [] c = "section" -> "User defined"
          [] OTHER -> ""]

\* user_row of "Add user-defined fields if provided"
user_row(columns, field) ==
    [c \in Range(columns) |->
        CASE c = "term_name" -> field
          [] c = "requirement_level_code" -> "O"
          [] c = "section" -> "User defined"
          [] OTHER -> ""]

\* pd.concat([project_meta_df, user_df], ignore_index=True): the rows are
\* labelled anew
ConcatUserRows(df, fields) ==
    LET all == [k \in 1..Len(df.rows) |-> df.rows[k].cells] \o
               [k \in 1..Len(fields) |-> user_row(df.columns, fields[k])]
    IN [df EXCEPT !.rows = [k \in 1..Len(all) |-> [index |-> k - 1, cells |-> all[k]]]]

\* "Add user-defined fields if provided"
AddProjectUserFields ==
    /\ ppc = "filtered"
    /\ project_meta_df' =
          IF projectMetadata_user # <<>>
          THEN ConcatUserRows(project_meta_df, projectMetadata_user)
          ELSE project_meta_df
    /\ ppc' = "user_fields_added"
    /\ UNCHANGED <<sampleVars, experimentVars, mpc, sendVars, applied, raised,
                   configVars, notSheets>>

\* project_meta_df.loc[project_meta_df['term_name'] == term, column] = value
SetCell(df, term, column, value) ==
    [df EXCEPT !.rows =
        [k \in 1..Len(df.rows) |->
            IF df.rows[k].cells["term_name"] = term
            THEN [df.rows[k] EXCEPT !.cells[column] = value]
            ELSE df.rows[k]]]

\* "if col_name not in project_meta_df.columns: project_meta_df[col_name] = ''"
AddDfColumn(df, col_name) ==
    IF col_name \in Range(df.columns) THEN df
    ELSE [columns |-> Append(df.columns, col_name),
          rows |-> [k \in 1..Len(df.rows) |->
                      [index |-> df.rows[k].index,
                       cells |-> [c \in Range(df.columns) \cup {col_name} |->
                                     IF c = col_name THEN ""
                                     ELSE df.rows[k].cells[c]]]]]

\* "Also create individual columns for each assay"
RECURSIVE assay_columns(_, _)
assay_columns(df, names) ==
    IF names = <<>> THEN df
    ELSE assay_columns(
             SetCell(AddDfColumn(df, Head(names)), "assay_name", Head(names),
                     Head(names)),
             Tail(names))

\* "Handle assay_name based on number of assays"
prefill_assay_name(df, names) ==
    IF Len(names) = 1
    THEN SetCell(df, "assay_name", "project_level", names[1])
    ELSE assay_columns(SetCell(df, "assay_name", "project_level", join(" | ", names)),
                       names)

\* "Pre-fill values from config.yaml", "Handle assay_name based on number of
\* assays"
PrefillProject ==
    /\ ppc = "user_fields_added"
    /\ project_meta_df' =
          prefill_assay_name(
              SetCell(SetCell(SetCell(project_meta_df,
                                      "project_id", "project_level", project_id),
                              "assay_type", "project_level", assay_type),
                      "checkls_ver", "project_level", "FAIRe_checklist_v1.0.xlsx"),
              assay_name)
    /\ ppc' = "prefilled"
    /\ UNCHANGED <<sampleVars, experimentVars, mpc, sendVars, applied, raised,
                   configVars, notSheets>>

\* [project_meta_df.columns.tolist()] + project_meta_df.values.tolist()
project_data(df) ==
    <<df.columns>> \o
    [k \in 1..Len(df.rows) |->
        [c \in 1..Len(df.columns) |-> df.rows[k].cells[df.columns[c]]]]

\* format_ranges: the header row and the term names in bold, then the colour
\* of each requirement level
project_format_ranges(d) ==
    LET term_name_col == Index(d[1], "term_name") + 1
        req_level_col == Index(d[1], "requirement_level_code") + 1
        coloured(r) == d[r + 1][req_level_col] \in color_styles
        w == Where(Len(d) - 1, coloured)
    IN <<repeatCell("bold", 0, 0), repeatCell("bold", 1, term_name_col - 1)>> \o
       [j \in 1..Len(w) |-> repeatCell("backgroundColor", w[j], req_level_col - 1)]

\* f"assay{i+1}", the column name that the dropdown loop looks for
assay_col_name(n) == "assay" \o <<"1", "2", "3", "4", "5", "6", "7", "8", "9">>[n]

\* "If multiple assays, apply to each assay column": the dropdowns of a row
\* for the columns named assay1, assay2, ... that the data frame has
assay_validation_requests(df, names, startRowIndex) ==
    LET found(n) == assay_col_name(n) \in Range(df.columns)
        w == IF Len(names) > 1 THEN Where(Len(names), found) ELSE <<>>
    IN [j \in 1..Len(w) |->
           setDataValidation(startRowIndex, Index(df.columns, assay_col_name(w[j])),
                             "True")]

\* validation_requests: a row is addressed by its index label; its dropdown
\* of the column project_level, then those of the assay columns
project_validation_requests(df) ==
    LET listed(k) == df.rows[k].cells["term_name"] \in vocab_df
        w == Where(Len(df.rows), listed)
    IN Flatten([j \in 1..Len(w) |->
           <<setDataValidation(df.rows[w[j]].index + 1,
                               Index(df.columns, "project_level"), "True")>> \o
           assay_validation_requests(df, assay_name, df.rows[w[j]].index + 1)])

\* note_requests: none for a user-defined field, none for a term the checklist
\* does not have
project_note_requests(d, checklist, user) ==
    LET term_name_col == Index(d[1], "term_name") + 1
        described(r) ==
            LET term == d[r + 1][term_name_col]
            IN /\ term # ""
               /\ term \notin Range(user)
               /\ \E n \in 1..Len(checklist) : checklist[n].term_name = term
        w == Where(Len(d) - 1, described)
    IN [j \in 1..Len(w) |-> updateCells(w[j], term_name_col - 1)]

\* the remote calls of the function from worksheet.resize on: a list of
\* validations or of notes that is empty is not sent
project_remote_calls(df, checklist, user) ==
    LET d == project_data(df)
    IN <<<<resize(Len(d) + 10, Len(d[1]) + 5)>>, <<update("A1")>>,
         project_format_ranges(d)>> \o
       NonEmpty(<<project_validation_requests(df),
                  project_note_requests(d, checklist, user)>>)

\* worksheet.resize to the end of the function; no exception is handled
FormatProject(fail_at) ==
    /\ ppc = "prefilled"
    /\ LET remote_calls ==
               project_remote_calls(project_meta_df, input_df, projectMetadata_user)
       IN /\ fail_at <= Len(remote_calls)
          /\ applied' = applied \o Done(remote_calls, fail_at)
    /\ raised' = IF fail_at = 0 THEN raised ELSE PermissionDenied
    /\ ppc' = IF fail_at = 0 THEN "formatted" ELSE "raised"
    /\ UNCHANGED <<project_meta_df, sampleVars, experimentVars, mpc, sendVars,
                   configVars, notSheets>>

(***************************************************************************)
(* The experimentRunMetadata grid (create_experiment_metadata_sheet).  The *)
(* grid is its list of rows, as the template sheet is read without header. *)
(***************************************************************************)
\* the sheets "experimentRunMetadata" of the full template of the model: up to
\* MaxFields fields of any requirement level, with or without a description row
ExperimentTemplates ==
    {ExperimentSheet([k \in 1..n |->
                         ChecklistRow(FieldNames[k], levels[k], "Core", NaN, "")], t) :
        <<n, levels, t>> \in
            {<<m, l, r>> : m \in {MaxFields - 1, MaxFields},
                           l \in [1..MaxFields -> {"M", "O"}], r \in {2, 3}}}

ExperimentInit ==
    /\ experiment_df \in ExperimentTemplates
    /\ LET terms == experiment_df[Len(experiment_df)]
       IN input_df = [k \in 1..Len(terms) |->
                         Row(terms[k], IF k = 1 THEN "M" ELSE experiment_df[1][k], NaN)]
    /\ req_lev \in ReqLevChoices
    /\ \/ xpc = "read" /\ experimentRunMetadata_user = <<>>
       \/ /\ xpc = "called"
          /\ experimentRunMetadata_user \in {UserFieldList(n) : n \in 0..MaxUserFields}
    /\ template = <<>>
    /\ sample_type = <<>>
    /\ assay_type = "metabarcoding"
    /\ assay_name = <<>>
    /\ sampleMetadata_user = <<>>
    /\ sheet_df = <<>>
    /\ apc = "idle"
    /\ new_row = <<>>
    /\ project_meta_df = <<>>
    /\ projectMetadata_user = <<>>
    /\ ppc = "idle"
    /\ mpc = "idle"
    /\ checklist_file = "ok"
    /\ template_file = "ok"
    /\ existing_sheets = <<>>
    /\ EngineIdle
    /\ BuildIdle
    /\ RemoteIdle
    /\ ProfileIdle

\* "Find the requirement level row": the last row that holds the label
req_lev_row(d) ==
    LET P(k) == "# requirement_level_code" \in Range(d[k]) IN LastRow(d, P)

\* "Drop columns with unwanted requirement levels"
experiment_filtered(d, levels) ==
    LET keep(c) == d[req_lev_row(d) + 1][c] \notin (Levels \ levels)
        w == Where(Len(d[1]), keep)
    IN [r \in 1..Len(d) |-> [j \in 1..Len(w) |-> d[r][w[j]]]]

\* "Format term_name row with bold"
experiment_bold(term_name_row) == <<repeatCell("bold", term_name_row, 0)>>

\* "Format requirement level cells with colors"
experiment_backgrounds(d, levels) ==
    LET row == d[req_lev_row(d) + 1]
        coloured(c) == row[c] \in color_styles /\ row[c] \in levels
        w == Where(Len(row), coloured)
    IN [j \in 1..Len(w) |-> repeatCell("backgroundColor", req_lev_row(d), w[j] - 1)]

\* "Add dropdowns for vocabulary fields": the rule has no key "strict"
experiment_dropdowns(d, term_name_row) ==
    LET term_names == d[term_name_row + 1]
        listed(c) == term_names[c] # "" /\ term_names[c] \in vocab_df
        w == Where(Len(term_names), listed)
    IN [j \in 1..Len(w) |->
           rows_until(setDataValidation(term_name_row + 1, w[j] - 1, "absent"),
                      term_name_row + 20)]

\* "Add comments with field information"
experiment_notes(d, term_name_row, checklist) ==
    LET term_names == d[term_name_row + 1]
        described(c) ==
            /\ term_names[c] # ""
            /\ \E n \in 1..Len(checklist) : checklist[n].term_name = term_names[c]
        w == Where(Len(term_names), described)
    IN [j \in 1..Len(w) |-> updateCells(term_name_row, w[j] - 1)]

\* def create_experiment_metadata_sheet(worksheet, full_temp_file_name,
\* input_df, req_lev, color_styles, vocab_df)
experiment_parameters ==
    {"worksheet", "full_temp_file_name", "input_df", "req_lev", "color_styles",
     "vocab_df"}

\* the keywords of the call of FAIReSheets
experiment_call_keywords ==
    {"worksheet", "full_temp_file_name", "input_df", "req_lev", "color_styles",
     "vocab_df", "experimentRunMetadata_user"}

\* "got an unexpected keyword argument"
TypeError ==
    [type |-> "TypeError", code |-> 0,
     msg |-> <<"k", "e", "y", "w", "o", "r", "d">>, chunk_index |-> NoChunk]

\* "Use the specialized function for experimentRunMetadata": the call of
\* FAIReSheets binds its keywords to the parameters before the body runs
call_create_experiment_metadata_sheet ==
    /\ xpc = "called"
    /\ assay_type = "metabarcoding"
    /\ IF experiment_call_keywords \subseteq experiment_parameters
       THEN xpc' = "read" /\ UNCHANGED raised
       ELSE xpc' = "raised" /\ raised' = TypeError
    /\ UNCHANGED <<experiment_df, sampleVars, projectVars, mpc, sendVars, applied,
                   configVars, notSheets>>

\* the function up to its batch loop: the grid is filtered, written, and the
\* formatting requests are collected
create_experiment_metadata_sheet(fail_at) ==
    /\ xpc = "read"
    /\ LET term_name_row == Len(experiment_df) - 1
           d == experiment_filtered(experiment_df, req_lev)
       IN /\ experiment_df' = d
          /\ applied' = applied \o
                Done(<<<<resize(Len(d) + 20, Len(d[1]) + 10)>>, <<update("A1")>>>>,
                     fail_at)
          /\ IF fail_at = 0
             THEN /\ batch_requests' =
                        collect(experiment_bold(term_name_row),
                                experiment_backgrounds(d, req_lev),
                                experiment_dropdowns(d, term_name_row),
                                experiment_notes(d, term_name_row, input_df))
                  /\ builder' = "experimentRunMetadata"
                  /\ bpc' = "start"
                  /\ xpc' = "collected"
                  /\ UNCHANGED raised
             ELSE /\ raised' = PermissionDenied
                  /\ xpc' = "raised"
                  /\ UNCHANGED sendVars
    /\ UNCHANGED <<sampleVars, projectVars, mpc, configVars, notSheets>>

(***************************************************************************)
(* FAIReSheets, from opening the spreadsheet to the creation of the empty  *)
(* worksheets that the grid builders are then called with.                 *)
(***************************************************************************)
FileNotFoundError ==
    [type |-> "FileNotFoundError", code |-> 0,
     msg |-> <<"i", "n", "p", "u", "t">>, chunk_index |-> NoChunk]

\* raise Exception(f"Error reading Excel file with pandas: {e}")
ReadError ==
    [type |-> "Exception", code |-> 0,
     msg |-> <<"E", "x", "c", "e", "l">>, chunk_index |-> NoChunk]

\* the title of the spreadsheet, or of the worksheet named by of, is set
update_title(of, title) == [request |-> "update_title", of |-> of, title |-> title]
del_worksheet(title) == [request |-> "del_worksheet", title |-> title]
add_worksheet(title) == [request |-> "add_worksheet", title |-> title]

\* "Add assay-type specific sheets"
sheet_names(type) ==
    <<"projectMetadata", "sampleMetadata", "Drop-down values">> \o
    (IF type = "metabarcoding"
     THEN <<"experimentRunMetadata", "taxaRaw", "taxaFinal">>
     ELSE IF type = "targeted" THEN <<"stdData", "eLowQuantData", "ampData">>
     ELSE <<>>)

\* the worksheets of the target spreadsheet when FAIReSheets starts: a new
\* spreadsheet, spreadsheets with sheets of other and of our names, the sheets
\* left by a run for targeted assays, a single sheet of one of our names
ExistingSheets ==
    {<<"Sheet1">>, <<"Sheet1", "notes">>, <<"Sheet1", "sampleMetadata">>,
     <<"README", "projectMetadata", "sampleMetadata", "Drop-down values",
       "stdData", "eLowQuantData", "ampData">>,
     <<"sampleMetadata">>}

MainInit ==
    /\ checklist_file \in {"ok", "missing"}
    /\ template_file \in {"ok", "unreadable"}
    /\ existing_sheets \in ExistingSheets
    /\ experimentRunMetadata_user = <<>>
    /\ assay_type \in {"targeted", "metabarcoding"}
    /\ mpc = "start"
    /\ template = <<>>
    /\ input_df = <<>>
    /\ req_lev = {}
    /\ sample_type = <<>>
    /\ assay_name = <<>>
    /\ sampleMetadata_user = <<>>
    /\ sheet_df = <<>>
    /\ apc = "idle"
    /\ new_row = <<>>
    /\ project_meta_df = <<>>
    /\ projectMetadata_user = <<>>
    /\ ppc = "idle"
    /\ experiment_df = <<>>
    /\ xpc = "idle"
    /\ EngineIdle
    /\ BuildIdle
    /\ RemoteIdle
    /\ ProfileIdle

\* client.open_by_key, then spreadsheet.update_title(f"FAIRe_{project_id}")
OpenSpreadsheet(fail_at) ==
    /\ mpc = "start"
    /\ applied' = applied \o
          (IF fail_at = 0
           THEN <<<<update_title("spreadsheet", "FAIRe_" \o project_id)>>>>
           ELSE <<>>)
    /\ raised' = IF fail_at = 0 THEN raised ELSE PermissionDenied
    /\ mpc' = IF fail_at = 0 THEN "titled" ELSE "raised"
    /\ UNCHANGED <<sampleVars, projectVars, experimentVars, sendVars, configVars,
                   notSheets>>

\* variant: a file that cannot be read goes unnoticed
load_failed_never(file) == FALSE

\* pd.read_excel raises
load_failed(file) == file # "ok"

\* "Read input checklist"
ReadChecklist ==
    /\ mpc = "titled"
    /\ IF load_failed(checklist_file)
       THEN raised' = FileNotFoundError /\ mpc' = "raised"
       ELSE mpc' = "checklist_read" /\ UNCHANGED raised
    /\ UNCHANGED <<sampleVars, projectVars, experimentVars, sendVars, applied,
                   configVars, notSheets>>

\* "Read Excel file using pandas instead of openpyxl directly"
ReadTemplate ==
    /\ mpc = "checklist_read"
    /\ IF load_failed(template_file)
       THEN raised' = ReadError /\ mpc' = "raised"
       ELSE mpc' = "template_read" /\ UNCHANGED raised
    /\ UNCHANGED <<sampleVars, projectVars, experimentVars, sendVars, applied,
                   configVars, notSheets>>

\* "Delete existing sheets if they match our names", "Create new sheets", "Use
\* Sheet1 as README sheet": one remote call each
setup_calls(existing, names) ==
    LET ours(k) == existing[k] \in Range(names)
        w == Where(Len(existing), ours)
    IN [j \in 1..Len(w) |-> <<del_worksheet(existing[w[j]])>>] \o
       [k \in 1..Len(names) |-> <<add_worksheet(names[k])>>] \o
       <<IF "Sheet1" \in Range(existing)
         THEN <<update_title("Sheet1", "README")>>
         ELSE <<add_worksheet("README")>>>>

\* HTTP 400 of the Sheets API: a sheet of that name already exists, or the
\* last sheet of a spreadsheet cannot be deleted
SheetRequestError ==
    [type |-> "APIError", code |-> 400,
     msg |-> <<"s", "h", "e", "e", "t">>, chunk_index |-> NoChunk]

\* the remote spreadsheet takes the call: its titles stay distinct and it
\* keeps at least one sheet
valid_call(titles, call) ==
    CASE call.request = "del_worksheet" ->
             call.title \in Range(titles) /\ Len(titles) > 1
      [] call.request = "add_worksheet" -> call.title \notin Range(titles)
      [] call.request = "update_title" ->
             call.of \in Range(titles) /\ call.title \notin Range(titles)
      [] OTHER -> TRUE

\* the titles of the remote spreadsheet after the call
apply_call(titles, call) ==
    CASE call.request = "del_worksheet" ->
             LET keep(k) == titles[k] # call.title
                 w == Where(Len(titles), keep)
             IN [j \in 1..Len(w) |-> titles[w[j]]]
      [] call.request = "add_worksheet" -> Append(titles, call.title)
      [] call.request = "update_title" ->
             [k \in 1..Len(titles) |->
                 IF titles[k] = call.of THEN call.title ELSE titles[k]]
      [] OTHER -> titles

RECURSIVE titles_after(_, _)
titles_after(titles, remote_calls) ==
    IF remote_calls = <<>> THEN titles
    ELSE titles_after(apply_call(titles, Head(remote_calls)[1]), Tail(remote_calls))

\* the number of the first call that the remote spreadsheet refuses, 0 for none
first_invalid(titles, remote_calls) ==
    LET bad(k) == ~valid_call(titles_after(titles, SubSeq(remote_calls, 1, k - 1)),
                              remote_calls[k][1])
        w == Where(Len(remote_calls), bad)
    IN IF w = <<>> THEN 0 ELSE w[1]

\* "Create or clear sheets": the call number fail_at meets a denied permission,
\* or a call is refused by the spreadsheet; no exception is handled but
\* WorksheetNotFound
SetupSheets(fail_at) ==
    /\ mpc = "template_read"
    /\ LET remote_calls == setup_calls(existing_sheets, sheet_names(assay_type))
           refused == first_invalid(existing_sheets, remote_calls)
           denied == fail_at # 0 /\ (refused = 0 \/ fail_at < refused)
           stop == IF denied THEN fail_at ELSE refused
       IN /\ fail_at <= Len(remote_calls)
          /\ applied' = applied \o Done(remote_calls, stop)
          /\ raised' = IF denied THEN PermissionDenied
                        ELSE IF refused # 0 THEN SheetRequestError
                        ELSE raised
          /\ mpc' = IF stop = 0 THEN "sheets_created" ELSE "raised"
    /\ UNCHANGED <<sampleVars, projectVars, experimentVars, sendVars, configVars,
                   notSheets>>

(***************************************************************************)
(* One run of FAIReSheets' set-up or of one grid builder.                  *)
(***************************************************************************)
SheetsInit == MainInit \/ SampleInit \/ ProjectInit \/ ExperimentInit

SheetsNext ==
    \/ \E fail_at \in 0..1 : OpenSpreadsheet(fail_at)
    \/ ReadChecklist
    \/ ReadTemplate
    \/ \E fail_at \in 0..3 : SetupSheets(fail_at)
    \/ FilterSampleType
    \/ DropTargetedSection
    \/ FanOutDetected
    \/ FilterReqLevel
    \/ AddUserFields
    \/ PrefillAssayName
    \/ \E fail_at \in 0..2 : FormatSample(fail_at)
    \/ FilterProjectRows
    \/ AddProjectUserFields
    \/ PrefillProject
    \/ \E fail_at \in 0..5 : FormatProject(fail_at)
    \/ call_create_experiment_metadata_sheet
    \/ \E fail_at \in 0..2 : create_experiment_metadata_sheet(fail_at)

SpecSheets == SheetsInit /\ [][SheetsNext]_vars

(***************************************************************************)
(* Properties of the grid builders and of FAIReSheets.                     *)
(***************************************************************************)
\* the requests of one grid in the order in which the builder issues them:
\* those it has sent itself, then those it hands to its batch loop
Emitted == Flatten(applied) \o batch_requests

NotesOf(reqs) == {k \in 1..Len(reqs) : reqs[k].request = "updateCells"}

\* the user-defined columns of the sample grid are its last ones, in input
\* order, Optional, of the section "User defined", with an empty value and
\* without a note
SampleUserFields ==
    LET n == Len(sheet_df)
        m == Len(sampleMetadata_user)
    IN /\ n >= m
       /\ \A k \in 1..m :
             /\ sheet_df[n - m + k] = Col(sampleMetadata_user[k], "User defined", "O")
             /\ apc \in {"prefilled", "collected"} => new_row[n - m + k] = ""
       /\ \A j \in 1..(n - m) : sheet_df[j].name \notin Range(sampleMetadata_user)
       /\ \A k \in NotesOf(batch_requests) :
             batch_requests[k].startColumnIndex < n - m

\* the same of the rows of the project grid; the note of row r of the data
\* frame has startRowIndex r
ProjectUserFields ==
    LET rows == project_meta_df.rows
        n == Len(rows)
        m == Len(projectMetadata_user)
    IN /\ n >= m
       /\ \A k \in 1..m :
             LET cells == rows[n - m + k].cells
             IN /\ cells["term_name"] = projectMetadata_user[k]
                /\ cells["requirement_level_code"] = "O"
                /\ cells["section"] = "User defined"
                /\ \A c \in DOMAIN cells :
                      c \notin {"term_name", "requirement_level_code", "section"}
                         => cells[c] = ""
       /\ \A j \in 1..(n - m) :
             rows[j].cells["term_name"] \notin Range(projectMetadata_user)
       /\ \A k \in NotesOf(Emitted) : Emitted[k].startRowIndex <= n - m

\* C16: each user-defined field is appended as one column (sample grid) or one
\* row (project grid), in input order and after all schema fields, with
\* requirement level "O", section "User defined" and an empty value, and no
\* note request is emitted for it.
C16_UserFields ==
    /\ apc \in {"assembled", "prefilled", "collected"} => SampleUserFields
    /\ ppc \in {"user_fields_added", "prefilled", "formatted", "raised"}
          => ProjectUserFields

\* a project grid of two user-defined fields and two assays has been formatted,
\* with notes on its schema fields
C16_Witness ==
    /\ ppc = "formatted"
    /\ Len(projectMetadata_user) = 2
    /\ Len(assay_name) = 2
    /\ NotesOf(Emitted) # {}
    /\ Len(project_meta_df.rows) > 3

\* the names in order, with " | " between neighbours
RECURSIVE Piped(_)
Piped(names) ==
    IF Len(names) = 1 THEN names[1]
    ELSE Piped(SubSeq(names, 1, Len(names) - 1)) \o " | " \o names[Len(names)]

\* the value cell of assay_name in the sample grid; no column is added
SampleAssayValue ==
    \A k \in 1..Len(sheet_df) :
        /\ sheet_df[k].name = "assay_name" => new_row[k] = Piped(assay_name)
        /\ sheet_df[k].name \notin Range(assay_name)

\* the value cell of assay_name in the project grid, and the columns of the
\* assays
ProjectAssayValue ==
    \A k \in 1..Len(project_meta_df.rows) :
        LET cells == project_meta_df.rows[k].cells
        IN cells["term_name"] = "assay_name" =>
              /\ cells["project_level"] = Piped(assay_name)
              /\ IF Len(assay_name) = 1
                 THEN project_meta_df.columns = ProjectHeaders
                 ELSE /\ \A a \in Range(assay_name) :
                            a \in Range(project_meta_df.columns) /\ cells[a] = a
                      /\ Range(project_meta_df.columns) =
                            Range(ProjectHeaders) \cup Range(assay_name)

\* C17: with one assay name the value cell of assay_name holds that name; with
\* several it holds the pipe-joined list of all names in order, and only the
\* project grid gets one extra column per assay whose assay_name cell holds that
\* name.
C17_AssayValue ==
    Len(assay_name) >= 1 =>
       /\ apc \in {"prefilled", "collected"} => SampleAssayValue
       /\ ppc \in {"prefilled", "formatted", "raised"} => ProjectAssayValue

\* a project grid that keeps the row assay_name has been pre-filled for two
\* different assays
C17_Witness ==
    /\ ppc = "prefilled"
    /\ Len(assay_name) = 2 /\ assay_name[1] # assay_name[2]
    /\ \E k \in 1..Len(project_meta_df.rows) :
          project_meta_df.rows[k].cells["term_name"] = "assay_name"

\* the kind of operation a request stands for; sizing, titles and sheets are
\* none of the five kinds
KindOf(req) ==
    CASE req.request = "update" -> "SetValue"
      [] req.request = "repeatCell" /\ req.fields = "bold" -> "SetEmphasis"
      [] req.request = "repeatCell" /\ req.fields = "backgroundColor" -> "SetBackground"
      [] req.request = "updateCells" -> "SetNote"
      [] req.request = "setDataValidation" -> "SetConstraint"
      [] OTHER -> "none"

\* no request of a kind later in order precedes one of an earlier kind
InOrder(reqs, order) ==
    \A a, b \in 1..Len(reqs) :
        (a < b /\ KindOf(reqs[a]) # "none" /\ KindOf(reqs[b]) # "none")
            => Index(order, KindOf(reqs[a])) <= Index(order, KindOf(reqs[b]))

GridRun == apc # "idle" \/ ppc # "idle" \/ xpc # "idle"

LoadError == mpc = "raised" /\ raised \in {FileNotFoundError, ReadError}

\* C19: in every run of FAIReSheets in which loading the checklist or the full
\* template fails, no mutation has been sent to the remote spreadsheet.
C19_NoMutationBeforeLoadError ==
    LoadError => applied = <<>>

\* C19 (amended): a checklist or a full template that cannot be loaded is
\* fatal and aborts the run before any sheet is deleted, created or written:
\* the run goes no further, and the only mutation sent to the remote
\* spreadsheet is the update of its title.
C19_OnlyTitleBeforeLoadError ==
    /\ LoadError =>
          applied = <<<<update_title("spreadsheet", "FAIRe_" \o project_id)>>>>
    /\ checklist_file # "ok" =>
          mpc \notin {"checklist_read", "template_read", "sheets_created"}
    /\ template_file # "ok" => mpc \notin {"template_read", "sheets_created"}

\* the full template could not be read, after the checklist was
C19_Witness ==
    /\ mpc = "raised" /\ raised = ReadError
    /\ checklist_file = "ok"
    /\ applied # <<>>

\* C20: every setDataValidation request emitted for a field of the primary
\* schema (by a grid builder) is strict, and every one emitted for a
\* profile-appended field (by the conversion) is not.
C20_Strictness ==
    /\ GridRun =>
          \A k \in 1..Len(Emitted) :
              Emitted[k].request = "setDataValidation" => Emitted[k].strict = "True"
    /\ fpc # "idle" =>
          \A k \in 1..Len(Flatten(applied)) :
              Flatten(applied)[k].request = "setDataValidation"
                 => Flatten(applied)[k].strict # "True"

(***************************************************************************)
(* Termination of the engine.                                              *)
(***************************************************************************)
\* C26: whatever the remote calls answer, batch_update_with_retry returns or
\* raises after at most ceil(n / chunk_size) * max_attempts remote calls (it is
\* never left without a next step before that), and it makes no remote call
\* when the request list is empty.
C26_EngineTerminates ==
    pc # "idle" =>
       /\ Len(calls) <= NumChunks * max_attempts
       /\ requests = <<>> => calls = <<>>
       /\ pc \notin {"done", "raised"} => ENABLED EngineNext
       /\ pc \in {"done", "raised"} => ~ENABLED EngineNext

\* the attempts ran out on the last of several chunks
C26_Witness ==
    /\ pc = "raised"
    /\ NumChunks >= 2 /\ max_attempts >= 2
    /\ Len(calls) = NumChunks - 1 + max_attempts

(***************************************************************************)
(* The grids of an empty selection of requirement levels.                  *)
(***************************************************************************)
SampleBuilt == apc \in {"assembled", "prefilled", "collected"}
ProjectBuilt == ppc \in {"user_fields_added", "prefilled", "formatted", "raised"}
\* the body of the experiment builder has run
ExperimentBuilt == xpc = "collected" \/ (xpc = "raised" /\ raised # TypeError)

\* C22 as stated: with no requirement level selected the grid holds nothing
\* but its structural part, i.e. the first column of a field-per-column grid
\* and no row of a project grid.
C22_EmptySelectionNoFields ==
    req_lev = {} =>
       /\ SampleBuilt => Len(sheet_df) = 1
       /\ ProjectBuilt => project_meta_df.rows = <<>>
       /\ ExperimentBuilt => Len(experiment_df[1]) = 1

\* C22: an empty set of requirement levels is not an error; the grid built
\* then holds its structural part (the first column of a field-per-column
\* grid, fields without a requirement level), no field of the schema whose
\* requirement level is M, HR, R or O, and after these the user-defined
\* fields, one per entry; a builder that has run raises only when a remote
\* call fails.
C22_EmptySelectionNoSchemaFields ==
    req_lev = {} =>
       /\ SampleBuilt =>
             /\ Len(sheet_df) >= 1 + Len(sampleMetadata_user)
             /\ \A k \in 2..(Len(sheet_df) - Len(sampleMetadata_user)) :
                   sheet_df[k].level \notin Levels
       /\ ProjectBuilt =>
             /\ Len(project_meta_df.rows) >= Len(projectMetadata_user)
             /\ \A j \in 1..(Len(project_meta_df.rows) - Len(projectMetadata_user)) :
                   project_meta_df.rows[j].cells["requirement_level_code"]
                      \notin Levels
       /\ ExperimentBuilt =>
             \A c \in 2..Len(experiment_df[1]) :
                experiment_df[req_lev_row(experiment_df) + 1][c] \notin Levels
       /\ (apc = "raised" \/ ppc = "raised" \/ (xpc = "raised" /\ ExperimentBuilt))
             => raised = PermissionDenied

\* a sample grid of no selected level has been written with its two user fields
C22_Witness ==
    /\ req_lev = {}
    /\ apc = "collected"
    /\ Len(sampleMetadata_user) = 2
    /\ Len(sheet_df) = 3
    /\ Len(applied) = 2

(***************************************************************************)
(* The assembled sample grid as a function of the inputs.                  *)
(***************************************************************************)
\* column n of the template passes the filters of the sample types, of the
\* assay type and of the requirement levels
PassesFilters(n) ==
    \/ n = 1
    \/ /\ SampleTypeSelects(input_df[n])
       /\ ~(assay_type = "metabarcoding"
              /\ template[n].section = "Targeted assay detection")
       /\ template[n].level \in req_lev \cup {""}

FansOut == assay_type = "targeted" /\ Len(assay_name) > 1

\* the columns of the template that stay, in the order of the template
RetainedSchemaColumns ==
    LET keep(n) == /\ PassesFilters(n)
                   /\ ~(FansOut /\ template[n].name = "detected_notDetected")
    IN SelectCols(template, keep)

\* the per-assay columns, in the order of the assay names
ExpectedFanColumns ==
    IF /\ FansOut
       /\ \E n \in 1..Len(template) :
             template[n].name = "detected_notDetected" /\ PassesFilters(n)
    THEN [k \in 1..Len(Distinct(assay_name)) |->
             Col("detected_notDetected_" \o Distinct(assay_name)[k],
                 "Targeted assay detection", DetectedLevel)]
    ELSE <<>>

\* the user-defined columns, in the order of the configuration
ExpectedUserColumns ==
    [k \in 1..Len(sampleMetadata_user) |->
        Col(sampleMetadata_user[k], "User defined", "O")]

\* C23: the assembled grid is a function of the schema and the selection alone
\* (so two runs on the same inputs give the same grid): the retained fields of
\* the schema in the order of the source, then the fan-out columns in the
\* order of the assay names, then the user-defined fields in input order.
C23_DeterministicOrder ==
    apc = "assembled" =>
       sheet_df = RetainedSchemaColumns \o ExpectedFanColumns \o ExpectedUserColumns

\* a field of the schema has been dropped, detected_notDetected, which stands
\* before kept fields in the schema, has been fanned out for the assays y and
\* x, and two user-defined fields have been added
C23_Witness ==
    /\ apc = "assembled"
    /\ assay_name = <<"y", "x">>
    /\ Len(sampleMetadata_user) = 2
    /\ Len(RetainedSchemaColumns) \in 3..(Len(template) - 2)
    /\ Len(ExpectedFanColumns) = 2
    /\ \E n \in 1..(Len(template) - 1) :
          /\ template[n].name = "detected_notDetected"
          /\ PassesFilters(n + 1)

(***************************************************************************)
(* The dropdowns of the per-assay columns of projectMetadata.              *)
(***************************************************************************)
\* the rows of a controlled-vocabulary field of the project grid
ProjectVocabRows ==
    {k \in 1..Len(project_meta_df.rows) :
        project_meta_df.rows[k].cells["term_name"] \in vocab_df}

HasValidation(startRowIndex, startColumnIndex) ==
    \E k \in 1..Len(Emitted) :
        Emitted[k] = setDataValidation(startRowIndex, startColumnIndex, "True")

\* C30: when more than one assay name is given, each row of a
\* controlled-vocabulary field of the formatted projectMetadata grid has, in
\* every per-assay column, the one-of-list constraint that its project_level
\* cell has.
C30_AssayColumnConstraints ==
    (ppc = "formatted" /\ Len(assay_name) > 1) =>
       \A k \in ProjectVocabRows :
          LET row == project_meta_df.rows[k].index + 1
          IN /\ HasValidation(row, Index(project_meta_df.columns, "project_level"))
             /\ \A a \in Range(assay_name) :
                   HasValidation(row, Index(project_meta_df.columns, a))

(***************************************************************************)
(* Fields without an entry of the vocabulary, in the grid builders and in  *)
(* the conversion.                                                         *)
(***************************************************************************)
SpecGrids == (SheetsInit \/ ProfileInit) /\ [][SheetsNext \/ ProfileNext]_vars

\* the requests applied since the last worksheet.resize, that call included
SinceResize ==
    LET isResize(k) == applied[k] # <<>> /\ applied[k][1].request = "resize"
        w == Where(Len(applied), isResize)
    IN IF w = <<>> THEN <<>>
       ELSE Flatten(SubSeq(applied, w[Len(w)], Len(applied)))

ValidationsAt(reqs, rows, cols) ==
    {k \in 1..Len(reqs) : /\ reqs[k].request = "setDataValidation"
                          /\ reqs[k].startRowIndex \in rows
                          /\ reqs[k].startColumnIndex \in cols}

\* the sample grid: a column whose term has no entry of the vocabulary has its
\* emphasis, its colour and its note, and no dropdown
SampleNoVocabulary ==
    \A k \in 1..Len(sheet_df) :
       term_for_lookup(sheet_df[k].name) \notin vocab_df =>
          /\ ValidationsAt(batch_requests, Nat, {k - 1}) = {}
          /\ repeatCell("bold", sample_term_name_row, 0) \in Range(batch_requests)
          /\ (sheet_df[k].level \in color_styles \cap req_lev) =>
                repeatCell("backgroundColor", sample_req_level_row, k - 1)
                   \in Range(batch_requests)
          /\ (\E n \in 1..Len(input_df) : input_df[n].term_name = sheet_df[k].name) =>
                updateCells(sample_term_name_row, k - 1) \in Range(batch_requests)

\* the project grid: the same of a row; the builder addresses the dropdown of
\* a row by its index label
ProjectNoVocabulary ==
    \A k \in 1..Len(project_meta_df.rows) :
       LET r == project_meta_df.rows[k] IN
       r.cells["term_name"] \notin vocab_df =>
          /\ ValidationsAt(SinceResize, {r.index + 1}, Nat) = {}
          /\ r.cells["requirement_level_code"] \in color_styles =>
                repeatCell("backgroundColor", k, 0) \in Range(SinceResize)
          /\ (\E n \in 1..Len(input_df) :
                 input_df[n].term_name = r.cells["term_name"]) =>
                updateCells(k, 2) \in Range(SinceResize)

\* the conversion: a field appended to experimentRunMetadata whose checklist
\* row has no options has its name, its emphasis, its colour and its note, and
\* no dropdown
ProfileNoVocabulary ==
    LET fields == TaggedRows("NOAAexperimentRunMetadata")
        term_name_row == Len(data) - 1
    IN \A k \in 1..Len(fields) :
          LET c == Len(data[1]) + k - 1 IN
          fields[k].controlled_vocabulary_options = "" =>
             /\ experimentRunMetadata[term_name_row + 1][c + 1] = fields[k].term_name
             /\ ValidationsAt(SinceResize, Nat, {c}) = {}
             /\ repeatCell("bold", term_name_row, c) \in Range(SinceResize)
             /\ repeatCell("backgroundColor", req_level_row_of(data), c)
                   \in Range(SinceResize)
             /\ updateCells(term_name_row, c) \in Range(SinceResize)

C25_ExperimentUserFields ==
    /\ raised # TypeError
    /\ xpc = "collected" =>
          \A k \in 1..Len(experimentRunMetadata_user) :
             experimentRunMetadata_user[k]
                \in Range(experiment_df[Len(experiment_df)])

(***************************************************************************)
(* The worksheets of the spreadsheet after the set-up of FAIReSheets.      *)
(***************************************************************************)
\* the calls of the set-up that the spreadsheet has taken
SetupApplied ==
    LET ofSetup(k) ==
            /\ applied[k] # <<>>
            /\ \/ applied[k][1].request \in {"del_worksheet", "add_worksheet"}
               \/ /\ applied[k][1].request = "update_title"
                  /\ applied[k][1].of # "spreadsheet"
        w == Where(Len(applied), ofSetup)
    IN [j \in 1..Len(w) |-> applied[w[j]]]

\* the titles of the worksheets of the remote spreadsheet
RemoteTitles == titles_after(existing_sheets, SetupApplied)

Count(titles, t) == Cardinality({k \in 1..Len(titles) : titles[k] = t})

\* C29: from every initial set of worksheets the set-up of FAIReSheets is
\* refused no call by the spreadsheet, and after it each required sheet and
\* README exist exactly once, each required sheet was created by this run, and
\* the worksheets of other names are those that were there.
C29_SetupSucceeds ==
    LET names == sheet_names(assay_type) IN
    /\ mpc = "raised" => raised # SheetRequestError
    /\ mpc = "sheets_created" =>
          /\ \A t \in Range(names) \cup {"README"} : Count(RemoteTitles, t) = 1
          /\ \A t \in Range(names) : add_worksheet(t) \in Range(Flatten(SetupApplied))
          /\ \A t \in Range(existing_sheets) \ (Range(names) \cup {"README", "Sheet1"}) :
                Count(RemoteTitles, t) = 1

(***************************************************************************)
(* The field-name row of a sheet with a field per column.                  *)
(***************************************************************************)
\* the 1-based row of a sheet that holds the names of its fields: the row
\* that starts with samp_name
NameRow(d) == CHOOSE r \in 1..Len(d) : d[r][1] = "samp_name"

\* after fields were appended to the sheet before, the sheet after has their
\* names in the row of the names of before and in no other row
NamesInNameRow(before, after, fields) ==
    \A k \in 1..Len(fields) : \A r \in 1..Len(after) :
        (after[r][Len(before[1]) + k] = fields[k].term_name) <=> (r = NameRow(before))

\* C28: after the profile fields are appended to sampleMetadata or
\* experimentRunMetadata, the names of the appended fields are in the row of
\* the names of the fields already present and in no other row, whether or not
\* the row under the names holds a pre-filled value.
C28_OneFieldNameRow ==
    /\ (fpc = "part2_experiment" /\ sample_data # <<>>) =>
           NamesInNameRow(sample_data, sampleMetadata, TaggedRows("NOAAsampleMetadata"))
    /\ (fpc = "converted" /\ data # <<>>) =>
           NamesInNameRow(data, experimentRunMetadata,
                          TaggedRows("NOAAexperimentRunMetadata"))

(***************************************************************************)
(* The ranges of the requests and the size of the sheet.                   *)
(***************************************************************************)
\* the range of a request lies inside a sheet of the size that the resize set:
\* its rows end at or before the last row, its column is one of the columns
InsideGrid(req, grid) ==
    "startRowIndex" \in DOMAIN req =>
        /\ endRowIndex_of(req) <= grid.rows
        /\ req.startColumnIndex + 1 <= grid.cols

\* the requests that a builder has collected for the sheet it resized and
\* sends next
Collected ==
    IF apc = "collected" \/ xpc = "collected" THEN batch_requests ELSE <<>>

\* C27: every request sent for a sheet after its resize has its range inside
\* the sheet: endRowIndex is at most the rows and endColumnIndex at most the
\* columns that the resize set, for the dropdowns of sampleMetadata and
\* experimentRunMetadata and for the dropdowns of the columns the conversion
\* appends.
C27_RangesInsideGrid ==
    LET sent == SinceResize \o Collected
    IN SinceResize # <<>> =>
          \A k \in 2..Len(sent) : InsideGrid(sent[k], sent[1])

(***************************************************************************)
(* The analysisMetadata sheets of FAIRe2NOAA: parts 4 and 5.               *)
(***************************************************************************)
MaxAnalysisFields == 2
MaxAnalysisRuns == 2

\* the title of the generic sheet, which is also the placeholder key of
\* analysis_run_name in NOAA_config.yaml
Placeholder == "analysisMetadata_<analysis_run_name>"

RunNames == <<"run1", "run2", Placeholder>>
RunAssays == <<"x", "y", "z">>
AnalysisFieldNames == <<"project_id", "analysis_run_name", "assay_name", "n1">>

\* the injective sequences of length n over 1..m
Arrangements(n, m) == {f \in [1..n -> 1..m] : \A a, b \in 1..n : f[a] = f[b] => a = b}

\* config['analysis_run_name'] as its items in order: the run name and the
\* assay_name configured for it
AnalysisRuns ==
    UNION {{[k \in 1..n |-> [name |-> RunNames[f[k]], assay_name |-> RunAssays[f[k]]]] :
               f \in Arrangements(n, Len(RunNames))} : n \in 0..MaxAnalysisRuns}

AnalysisInit ==
    /\ \E n \in 0..MaxAnalysisFields :
          \E f \in Arrangements(n, Len(AnalysisFieldNames)) :
             noaa_checklist =
                 [k \in 1..n |->
                     ChecklistRow(AnalysisFieldNames[f[k]], "M", "Analysis",
                                  Specificity(<<"NOAAanalysisMetadata">>),
                                  IF AnalysisFieldNames[f[k]] = "n1" THEN "c | d" ELSE "")]
    /\ config \in [project_id : {"", "p1"}, analysis_run_name : AnalysisRuns]
    /\ analysis_worksheets = <<>>
    /\ analysis_sheets = <<>>
    /\ projectMetadata = <<>>
    /\ experimentRunMetadata = <<>>
    /\ sampleMetadata = <<>>
    /\ sample_data = <<>>
    /\ data = <<>>
    /\ converted = <<>>
    /\ runs = 1
    /\ fpc = "part4"
    /\ EngineIdle
    /\ BuildIdle
    /\ RemoteIdle
    /\ AsmIdle
    /\ SheetsIdle

\* "project_id not found in NOAA_config.yaml"
ValueError ==
    [type |-> "ValueError", code |-> 0, msg |-> <<"i", "d">>, chunk_index |-> NoChunk]

\* config['analysis_run_name'][analysis_run_name] of a name that is no key
KeyError ==
    [type |-> "KeyError", code |-> 0, msg |-> <<"k", "e", "y">>, chunk_index |-> NoChunk]

\* the keys of config.get('analysis_run_name', {})
run_names(analysis_runs) == [k \in 1..Len(analysis_runs) |-> analysis_runs[k].name]

\* "If no analysis runs are specified, or only the placeholder exists, create a
\* single generic analysisMetadata sheet"
generic_sheet(analysis_runs) ==
    analysis_runs = <<>> \/ Placeholder \in Range(run_names(analysis_runs))

\* the keys of the dict analysis_worksheets
analysis_keys(analysis_runs) ==
    IF generic_sheet(analysis_runs) THEN <<Placeholder>> ELSE run_names(analysis_runs)

\* sheet_name of a key
analysis_sheet_name(key) ==
    IF key = Placeholder THEN key ELSE "analysisMetadata_" \o key

create_analysis_sleep == Dur(60, 1)

\* create_analysis_metadata_sheets(spreadsheet, config): existing tells whether
\* the spreadsheet has the generic sheet; the add_worksheet number fail_at
\* raises e (0: none raises); after a rate limit the call is made once more,
\* and retry_fails tells whether that call raises too
create_analysis_metadata_sheets(existing, fail_at, e, retry_fails) ==
    /\ fpc = "part4"
    /\ IF config.project_id = ""
       THEN /\ fail_at = 0 /\ ~existing /\ ~retry_fails /\ e = PermissionDenied
            /\ raised' = Wrapped(ValueError)
            /\ fpc' = "failed"
            /\ UNCHANGED <<applied, sleeps, analysis_worksheets>>
       ELSE LET analysis_runs == config.analysis_run_name
                keys == analysis_keys(analysis_runs)
                adds == IF generic_sheet(analysis_runs) /\ existing THEN <<>>
                        ELSE [k \in 1..Len(keys) |->
                                 <<add_worksheet(analysis_sheet_name(keys[k]))>>]
                limited == fail_at # 0 /\ is_rate_limit_error(e)
                fails == fail_at # 0 /\ (limited => retry_fails)
            IN /\ fail_at \in 0..Len(adds)
               /\ existing => generic_sheet(analysis_runs)
               /\ fail_at = 0 => (~retry_fails /\ e = PermissionDenied)
               /\ retry_fails => limited
               /\ sleeps' = IF limited
                            THEN Append(sleeps, Slept("analysisMetadata", fail_at,
                                                      create_analysis_sleep))
                            ELSE sleeps
               /\ applied' = applied \o (IF fails THEN Done(adds, fail_at) ELSE adds)
               /\ raised' = IF fails THEN Wrapped(e) ELSE raised
               /\ analysis_worksheets' = IF fails THEN analysis_worksheets ELSE keys
               /\ fpc' = IF fails THEN "failed" ELSE "part5"
    /\ UNCHANGED <<batch_requests, analysis_sheets, notAnalysis>>

analysis_headers == <<"requirement_level_code", "section", "term_name", "values">>

\* row['values'] of a field in the sheet of the key analysis_run_name; the
\* look-up of a key that config['analysis_run_name'] does not have raises
analysis_value(field, analysis_run_name) ==
    IF field.term_name = "project_id" THEN config.project_id
    ELSE IF field.term_name = "analysis_run_name" THEN analysis_run_name
    ELSE IF field.term_name = "assay_name"
    THEN LET analysis_runs == config.analysis_run_name
         IN analysis_runs[CHOOSE k \in 1..Len(analysis_runs) :
                              analysis_runs[k].name = analysis_run_name].assay_name
    ELSE ""

\* whether building the rows raises the KeyError
analysis_lookup_fails(noaa_fields, analysis_run_name) ==
    /\ \E j \in 1..Len(noaa_fields) : noaa_fields[j].term_name = "assay_name"
    /\ analysis_run_name \notin Range(run_names(config.analysis_run_name))

\* all_data: the headers and a row for each field
analysis_all_data(noaa_fields, analysis_run_name) ==
    <<analysis_headers>> \o
    [j \in 1..Len(noaa_fields) |->
        <<noaa_fields[j].requirement_level_code, noaa_fields[j].section,
          noaa_fields[j].term_name, analysis_value(noaa_fields[j], analysis_run_name)>>]

updateSheetProperties(rowCount, columnCount) ==
    [request |-> "updateSheetProperties", rowCount |-> rowCount,
     columnCount |-> columnCount]

\* the one batch of add_noaa_fields_to_analysis_metadata: the size of the
\* sheet, its cells, the bold headers, then for each row its colour, its bold
\* term name, its note and its dropdown
analysis_batch_requests(noaa_fields, all_data) ==
    <<updateSheetProperties(Len(all_data) + 10, Len(analysis_headers) + 5),
      rows_until(updateCells(0, 0), Len(all_data)),
      repeatCell("bold", 0, 0)>> \o
    Flatten([j \in 1..Len(noaa_fields) |->
        LET first == TermInfo(noaa_fields, noaa_fields[j].term_name)[1]
        IN (IF noaa_fields[j].requirement_level_code \in color_styles
            THEN <<repeatCell("backgroundColor", j, 0)>> ELSE <<>>) \o
           <<repeatCell("bold", j, 2)>> \o
           (IF first.description # "" THEN <<updateCells(j, 2)>> ELSE <<>>) \o
           (IF first.controlled_vocabulary_options # ""
            THEN <<setDataValidation(j, 3, "False")>> ELSE <<>>)])

max_retries == 5

\* wait_time of the retry number k: 2 seconds, doubled each time
analysis_wait_time(k) == Dur(2 ^ k, 1)

\* add_noaa_fields_to_analysis_metadata(worksheet, noaa_analysis_fields, config,
\* analysis_run_name) for the next item of analysis_worksheets: the batch is
\* answered by limited rate limits in a row and then, unless denied, accepted
add_noaa_fields_to_analysis_metadata(limited, denied) ==
    /\ fpc = "part5"
    /\ Len(analysis_sheets) < Len(analysis_worksheets)
    /\ LET analysis_run_name == analysis_worksheets[Len(analysis_sheets) + 1]
           noaa_fields == get_noaa_fields(noaa_checklist, "NOAAanalysisMetadata")
           all_data == analysis_all_data(noaa_fields, analysis_run_name)
           retries == Min(limited, max_retries - 1)
           fails == limited = max_retries \/ denied
       IN IF analysis_lookup_fails(noaa_fields, analysis_run_name)
          THEN /\ limited = 0 /\ ~denied
               /\ raised' = Wrapped(KeyError)
               /\ fpc' = "failed"
               /\ UNCHANGED <<batch_requests, applied, sleeps, analysis_sheets>>
          ELSE /\ limited = max_retries => ~denied
               /\ batch_requests' = analysis_batch_requests(noaa_fields, all_data)
               /\ sleeps' = sleeps \o
                     [k \in 1..retries |->
                         Slept("analysisMetadata", k, analysis_wait_time(k))]
               /\ applied' = IF fails THEN applied
                             ELSE Append(applied,
                                         analysis_batch_requests(noaa_fields, all_data))
               /\ raised' = IF limited = max_retries THEN Wrapped(QuotaExceeded)
                            ELSE IF denied THEN Wrapped(PermissionDenied)
                            ELSE raised
               /\ analysis_sheets' = IF fails THEN analysis_sheets
                                     ELSE Append(analysis_sheets, all_data)
               /\ fpc' = IF fails THEN "failed"
                         ELSE IF Len(analysis_sheets) + 1 = Len(analysis_worksheets)
                         THEN "part6" ELSE "part5"
    /\ UNCHANGED <<analysis_worksheets, notAnalysis>>

AnalysisNext ==
    \/ \E existing, retry_fails \in BOOLEAN, fail_at \in 0..MaxAnalysisRuns,
          e \in {PermissionDenied, QuotaExceeded} :
          create_analysis_metadata_sheets(existing, fail_at, e, retry_fails)
    \/ \E limited \in 0..max_retries, denied \in BOOLEAN :
          add_noaa_fields_to_analysis_metadata(limited, denied)

SpecAnalysis == AnalysisInit /\ [][AnalysisNext]_vars

\* the value that the configuration gives a field of the sheet returned under
\* the key: the project, the run of the sheet, the assay configured for the run
AutoFillValue(term_name, key) ==
    IF term_name = "project_id" THEN config.project_id
    ELSE IF term_name = "analysis_run_name" THEN key
    ELSE IF term_name = "assay_name"
    THEN LET hit == {k \in 1..Len(config.analysis_run_name) :
                        config.analysis_run_name[k].name = key}
         IN IF hit = {} THEN "" ELSE config.analysis_run_name[CHOOSE k \in hit : TRUE].assay_name
    ELSE ""

\* C21: every analysisMetadata sheet that was filled has, for each tagged
\* field, the mapped configuration value in the value cell of a field of the
\* auto-fill mapping and an empty value cell otherwise; and filling raises no
\* look-up error for any sheet that create_analysis_metadata_sheets returned,
\* the generic sheet of a configuration without run names included.
C21_AutoFill ==
    /\ \A n \in 1..Len(analysis_sheets) :
          LET fields == TaggedRows("NOAAanalysisMetadata")
              sheet == analysis_sheets[n]
          IN /\ Len(sheet) = Len(fields) + 1
             /\ \A k \in 1..Len(fields) :
                   /\ sheet[k + 1][3] = fields[k].term_name
                   /\ sheet[k + 1][4] =
                         AutoFillValue(fields[k].term_name, analysis_worksheets[n])
    /\ raised # Wrapped(KeyError)
====
